---- MODULE Spec2Model ----
(***************************************************************************)
(* The annotation editor of src/src/pages/AddTextToPDF.tsx as a state      *)
(* machine: the React state of the component, one action per event         *)
(* handler, and the pure geometry (snapping, corner resize, output         *)
(* transform) as operators.                                                *)
(*                                                                         *)
(* Numbers.  The source works in PDF points held in doubles.  The model    *)
(* holds every length as an integer number of 1/PT points, so that the     *)
(* halves taken by the snap engine, the 0.8 * fontSize baseline and the    *)
(* 595.276 x 841.890 fallback page are all exact.  fontSize itself is kept *)
(* in whole points, as in FONT_SIZES.                                      *)
(***************************************************************************)
EXTENDS Integers, Sequences, FiniteSets, TLC

VARIABLES
    file,           \* useState<File | null>: the loaded document, or NoFile
    pages,          \* useState<string[]>: number of page images
    pageInfos,      \* useState<PageInfo[]>
    isLoading,      \* useState(false)
    editorMode,     \* useState<EditorMode>('edit')
    loads,          \* the page-loading promises in flight
    currentPage,    \* useState(0), 0-indexed
    annotations,    \* useState<TextAnnotation[]>: the annotation store
    selectedId,     \* useState<string | null>
    isEditing,      \* useState(false)
    activeTool,     \* useState<Tool>('text')
    fontSize,       \* useState(16)
    color,          \* useState('#000000')
    history,        \* useState<TextAnnotation[][]>([[]])
    historyIndex,   \* useState(0), 0-indexed
    isUndoingRef,   \* useRef(false)
    timers,         \* number of pending setTimeout(..., 0) flag resets
    isDragging,     \* useState(false)
    resizeCorner,   \* useState<ResizeCorner>(null)
    dragOffset,     \* useState({x: 0, y: 0})
    resizeStart,    \* useState({x, y, width, height, annX, annY})
    snapGuides,     \* useState<SnapGuide[]>([])
    pressed,        \* the annotation the mouse button went down on, until it is released
    presses,        \* how often the mouse button has gone down on an annotation
    clipboard,      \* useState<TextAnnotation | null>(null)
    nextId,         \* the ids handed out so far, plus one (ids grow with Date.now())
    xf,             \* the call of applySnapping or of handleSave under study: input, result
    isProcessing,   \* useState(false): a save is running
    error,          \* useState<string | null>(null)
    save,           \* the handleSave call in progress: where it waits, what it captured
    calls,          \* every addTextToPDF call made so far, in order, with its outcome
    downloads,      \* every downloadFile call made so far
    zoom,           \* useState(100), in percent
    session,        \* localStorage[STORAGE_KEY]: the persisted session, or NoSession
    hasRestoredSession,   \* useRef(false): the restore effect has run
    isRestoringSession,   \* useRef(false): a restore is in progress
    fatal,          \* a render has thrown: the component tree is unmounted
    effects,        \* how often the restore effect has been invoked
    requests,       \* how often the restore effect has requested the page images
    last            \* the last event handled and what it was given

fileVars    == <<file, pages, pageInfos, isLoading, editorMode, loads, currentPage>>
storeVars   == <<annotations, selectedId, isEditing, activeTool, fontSize, color>>
histVars    == <<history, historyIndex, isUndoingRef, timers>>
gestureVars == <<isDragging, resizeCorner, dragOffset, resizeStart, snapGuides, pressed,
                 presses>>
saveVars    == <<isProcessing, error, save, calls, downloads>>
restoreVars == <<hasRestoredSession, isRestoringSession, fatal, effects, requests>>
vars == <<fileVars, storeVars, histVars, gestureVars, clipboard, nextId, xf, saveVars,
          zoom, session, restoreVars, last>>

----------------------------------------------------------------------------
(* Units and program constants                                             *)

PT == 8000

MAX_HISTORY == 3

SNAP_THRESHOLD == 5 * PT

minWidth == 20 * PT

minHeight == 10 * PT

DEFAULT_WIDTH == 120 * PT

OFFSET == 10 * PT

HANDLE == 6 * PT

FONT_SIZES == {6, 8, 10, 12, 14, 16, 18, 20, 24, 28, 32, 36, 48, 64, 72}

NoFile == "null"

NoId == 0

NoClip == [id |-> NoId]

NoCorner == "null"

NoError == "null"

Max(a, b) == IF a >= b THEN a ELSE b

Min(a, b) == IF a <= b THEN a ELSE b

Abs(a) == IF a < 0 THEN -a ELSE a

Half(v) == v \div 2

----------------------------------------------------------------------------
(* Page geometry                                                           *)

\* One PageInfo as the page-info service supplies it: the unrotated box, its
\* origin, the rotation, and the box as displayed (swapped for 90 and 270).
PageInfo(w, h, ox, oy, rot) ==
    [width |-> w, height |-> h, offsetX |-> ox, offsetY |-> oy, rotation |-> rot,
     effectiveWidth  |-> IF rot \in {90, 270} THEN h ELSE w,
     effectiveHeight |-> IF rot \in {90, 270} THEN w ELSE h]

\* The fallback used when pageInfos has no entry for a page.
DefaultPageInfo ==
    [width |-> 595276 * (PT \div 1000), height |-> 841890 * (PT \div 1000),
     offsetX |-> 0, offsetY |-> 0, rotation |-> 0,
     effectiveWidth |-> 595276 * (PT \div 1000),
     effectiveHeight |-> 841890 * (PT \div 1000)]

InfoAt(infos, index) ==
    IF index >= 0 /\ index < Len(infos) THEN infos[index + 1] ELSE DefaultPageInfo

currentPageInfo == InfoAt(pageInfos, currentPage)

currentDims ==
    [width |-> currentPageInfo.effectiveWidth, height |-> currentPageInfo.effectiveHeight]

\* The page surface is in the DOM (pageRef.current is set) when the editor
\* layout is shown, loading has finished and no tool panel replaces it.
Mounted ==
    /\ (file # NoFile \/ pages > 0)
    /\ ~isLoading
    /\ editorMode = "edit"

\* getPositionInPoints: the pointer as a point of the page, clamped to it.
\* e is the pointer already scaled to points (contentX / contentWidth * width),
\* possibly outside the page.
getPositionInPoints(e) ==
    IF ~Mounted THEN [x |-> 0, y |-> 0]
    ELSE [x |-> Max(0, Min(currentDims.width, e.x)),
          y |-> Max(0, Min(currentDims.height, e.y))]

----------------------------------------------------------------------------
(* Annotation store helpers                                                *)

Range(s) == {s[i] : i \in 1..Len(s)}

RECURSIVE Filter(_, _, _)
\* annotations.filter(a => (a.id !== exceptId) && (page = 0 or a.page === page))
Filter(anns, exceptId, page) ==
    IF anns = <<>> THEN <<>>
    ELSE LET a == Head(anns)
             rest == Filter(Tail(anns), exceptId, page)
         IN IF a.id # exceptId /\ (page = 0 \/ a.page = page) THEN <<a>> \o rest ELSE rest

\* annotations.find(a => a.id === id); NoClip stands for undefined
Find(anns, id) ==
    IF \E i \in 1..Len(anns) : anns[i].id = id
    THEN anns[CHOOSE i \in 1..Len(anns) : anns[i].id = id /\ \A j \in 1..(i - 1) : anns[j].id # id]
    ELSE NoClip

Has(anns, id) == \E i \in 1..Len(anns) : anns[i].id = id

\* annotations.map(a => a.id === id ? f(a) : a), with f(a) given as the record upd
MapId(anns, id, upd) ==
    [i \in 1..Len(anns) |-> IF anns[i].id = id THEN upd ELSE anns[i]]

----------------------------------------------------------------------------
(* Snap engine                                                             *)

RECURSIVE SiblingPoints(_, _)
\* otherAnnotations.forEach: left, centre, right (axis "x") or top, centre,
\* bottom (axis "y") of every sibling, in store order
SiblingPoints(others, axis) ==
    IF others = <<>> THEN <<>>
    ELSE LET a == Head(others)
         IN (IF axis = "x"
             THEN <<a.x, a.x + Half(a.width), a.x + a.width>>
             ELSE <<a.y, a.y + Half(a.height), a.y + a.height>>)
            \o SiblingPoints(Tail(others), axis)

\* getSnapPoints(excludeId): page near edge, centre, far edge, then the siblings
getSnapPoints(anns, excludeId, page, dims) ==
    LET otherAnnotations == Filter(anns, excludeId, page + 1)
    IN [verticalPoints   |-> <<0, Half(dims.width), dims.width>>
                             \o SiblingPoints(otherAnnotations, "x"),
        horizontalPoints |-> <<0, Half(dims.height), dims.height>>
                             \o SiblingPoints(otherAnnotations, "y")]

C8_NearMutant(point, snapPoint) == Abs(point - snapPoint) < 2 * PT

\* Math.abs(xPoint - snapPoint) < SNAP_THRESHOLD
Near(point, snapPoint) == Abs(point - snapPoint) < SNAP_THRESHOLD

\* the inner loop: index of the first snap point near `point`, 0 when none
FirstMatch(point, snapPoints) ==
    IF \E k \in 1..Len(snapPoints) : Near(point, snapPoints[k])
    THEN CHOOSE k \in 1..Len(snapPoints) :
            /\ Near(point, snapPoints[k])
            /\ \A j \in 1..(k - 1) : ~Near(point, snapPoints[j])
    ELSE 0

C9_SnapStepMutant(acc, pos, point, snapPoints) ==
    LET k == FirstMatch(point, snapPoints)
    IN IF k = 0 \/ acc.guides # <<>> THEN acc
       ELSE [pos |-> pos + (snapPoints[k] - point),
             guides |-> Append(acc.guides, snapPoints[k])]

\* one pass of the outer loop for the representative point `point` of a box
\* whose raw coordinate is pos: a match overwrites the snapped coordinate and
\* appends a guide
SnapStep(acc, pos, point, snapPoints) ==
    LET k == FirstMatch(point, snapPoints)
    IN IF k = 0 THEN acc
       ELSE [pos |-> pos + (snapPoints[k] - point),
             guides |-> Append(acc.guides, snapPoints[k])]

\* the outer loop over [pos, pos + size / 2, pos + size]
SnapAxis(pos, size, snapPoints) ==
    LET s1 == SnapStep([pos |-> pos, guides |-> <<>>], pos, pos, snapPoints)
        s2 == SnapStep(s1, pos, pos + Half(size), snapPoints)
    IN SnapStep(s2, pos, pos + size, snapPoints)

Guides(type, positions) ==
    [i \in 1..Len(positions) |-> [type |-> type, position |-> positions[i]]]

\* applySnapping(x, y, width, height, excludeId)
applySnapping(x, y, width, height, excludeId, anns, page, dims) ==
    LET sp == getSnapPoints(anns, excludeId, page, dims)
        sx == SnapAxis(x, width, sp.verticalPoints)
        sy == SnapAxis(y, height, sp.horizontalPoints)
    IN [x |-> sx.pos, y |-> sy.pos,
        guides |-> Guides("vertical", sx.guides) \o Guides("horizontal", sy.guides)]

----------------------------------------------------------------------------
(* Corner resize                                                           *)

C6_WestMutant(rs, dx) ==
    [x |-> rs.annX + dx, width |-> Max(minWidth, rs.width + (-dx))]

\* sw and nw: the left edge follows the pointer, the width takes the opposite
\* change; a left edge pushed off the page is set to 0 and the width absorbs it
West(rs, dx) ==
    LET newX == rs.annX + dx
        newWidth == Max(minWidth, rs.width + (-dx))
    IN IF newX < 0 THEN [x |-> 0, width |-> newWidth + newX]
       ELSE [x |-> newX, width |-> newWidth]

C7_NorthMutant(rs, dy) ==
    [y |-> Max(0, rs.annY + dy), height |-> Max(minHeight, rs.height + (-dy))]

\* ne and nw: the same for the top edge and the height
North(rs, dy) ==
    LET newY == rs.annY + dy
        newHeight == Max(minHeight, rs.height + (-dy))
    IN IF newY < 0 THEN [y |-> 0, height |-> newHeight + newY]
       ELSE [y |-> newY, height |-> newHeight]

\* the box computed by the resize branch of handleMouseMove from the box
\* captured at pointer-down (rs) and the pointer's displacement (dx, dy)
ResizeBox(corner, rs, dx, dy) ==
    LET newWidth  == Max(minWidth, rs.width + dx)
        newHeight == Max(minHeight, rs.height + dy)
        west  == West(rs, dx)
        north == North(rs, dy)
    IN CASE corner = "se" ->
              [x |-> rs.annX, y |-> rs.annY, width |-> newWidth, height |-> newHeight]
         [] corner = "sw" ->
              [x |-> west.x, y |-> rs.annY, width |-> west.width, height |-> newHeight]
         [] corner = "ne" ->
              [x |-> rs.annX, y |-> north.y, width |-> newWidth, height |-> north.height]
         [] corner = "nw" ->
              [x |-> west.x, y |-> north.y, width |-> west.width, height |-> north.height]
         [] OTHER ->
              [x |-> rs.annX, y |-> rs.annY, width |-> rs.width, height |-> rs.height]

----------------------------------------------------------------------------
(* Output transform                                                        *)

C10_baselineOffsetMutant(fs) == fs * PT

\* annotation.fontSize * 0.8, in 1/PT points
baselineOffset(fs) == fs * ((PT * 8) \div 10)

\* the rotation branches of handleSave: the point handed to addTextToPDF
toDocumentSpace(a, info) ==
    LET b == baselineOffset(a.fontSize)
        rotation == info.rotation
    IN CASE rotation = 0 ->
              [x |-> a.x + info.offsetX, y |-> info.height - a.y - b + info.offsetY]
         [] rotation = 90 ->
              [x |-> a.y + info.offsetX, y |-> a.x + b + info.offsetY]
         [] rotation = 180 ->
              [x |-> info.width - a.x - info.offsetX, y |-> a.y + b + info.offsetY]
         [] rotation = 270 ->
              [x |-> info.height - a.y + info.offsetX,
               y |-> info.width - a.x - b + info.offsetY]
         [] OTHER ->
              [x |-> a.x + info.offsetX, y |-> info.height - a.y - b + info.offsetY]

----------------------------------------------------------------------------
(* History manager                                                         *)

EmptyHistory == << <<>> >>

\* the updater given to setHistory by pushToHistory
PushedHistory(prev, index, newAnnotations) ==
    LET newHistory == Append(SubSeq(prev, 1, index + 1), newAnnotations)
    IN IF Len(newHistory) > MAX_HISTORY THEN Tail(newHistory) ELSE newHistory

\* the updater given to setHistoryIndex by pushToHistory
PushedIndex(prev) == Min(prev + 1, MAX_HISTORY - 1)

C18_pushToHistoryMutant(newAnnotations) ==
    /\ history' = PushedHistory(history, historyIndex, newAnnotations)
    /\ historyIndex' = PushedIndex(historyIndex)

\* pushToHistory(newAnnotations)
pushToHistory(newAnnotations) ==
    IF isUndoingRef
    THEN UNCHANGED <<history, historyIndex>>
    ELSE /\ history' = PushedHistory(history, historyIndex, newAnnotations)
         /\ historyIndex' = PushedIndex(historyIndex)

canUndo == historyIndex > 0

canRedo == historyIndex < Len(history) - 1

----------------------------------------------------------------------------
(* Documents                                                               *)

\* The documents a user can open or a tool panel can produce: their pages.
DocPages(doc) ==
    CASE doc = "A" -> << PageInfo(244 * PT, 160 * PT, 0, 0, 0) >>
      [] doc = "B" -> << PageInfo(244 * PT, 160 * PT, 0, 0, 0),
                         PageInfo(100 * PT, 180 * PT, 0, 0, 0) >>
      [] OTHER -> << >>

----------------------------------------------------------------------------
(* What is on screen                                                       *)

EditorShown == file # NoFile \/ pages > 0

\* the annotation's element is rendered: currentPageAnnotations of a mounted page
Rendered(id) ==
    /\ Mounted
    /\ Has(annotations, id)
    /\ Find(annotations, id).page = currentPage + 1

\* document.activeElement is the text-edit field; it exists only for the
\* selected annotation while isEditing, and it may have lost the focus
TextareaRendered == selectedId # NoId /\ Rendered(selectedId) /\ isEditing

FocusChoices == IF TextareaRendered THEN {TRUE, FALSE} ELSE {FALSE}

\* ids are `${Date.now()}-${Math.random()}`: each differs from every id handed out before
FreshId == nextId

\* what the last event did: its name, whether it directly followed an undo,
\* the snapshot that was current before an undo, the raw position (rawX, rawY)
\* of a drag move, the pointer's travel (dx, dy) of a resize move
\* n counts the events handled, in a specification that bounds the length of
\* a session; elsewhere it stays -1
NoEvent ==
    [op |-> "init", afterUndo |-> FALSE, before |-> <<>>, rawX |-> 0, rawY |-> 0,
     dx |-> 0, dy |-> 0, n |-> -1]

Did(op) ==
    [NoEvent EXCEPT !.op = op, !.n = IF last.n < 0 THEN last.n ELSE last.n + 1]

----------------------------------------------------------------------------
(* The session store                                                       *)

\* localStorage.getItem(STORAGE_KEY) returns null
NoSession == [item |-> "null"]

\* the session the save effect serializes: the document's bytes and the
\* editor state that is persisted
Snapshot ==
    [item |-> "session", fileData |-> file, annotations |-> annotations,
     currentPage |-> currentPage, fontSize |-> fontSize, color |-> color, zoom |-> zoom]

\* what the save effect depends on: it runs after a render in which one of
\* these has changed
SaveDeps == <<file, annotations, currentPage, fontSize, color, zoom, isLoading>>

\* the save effect: with a document loaded, no restore in progress and no
\* load in progress it writes the session; otherwise it returns at once.
\* (file.arrayBuffer() is awaited before the write; the model writes at once.)
saveSession ==
    session' = IF SaveDeps' # SaveDeps /\ file' # NoFile /\ ~isRestoringSession'
                  /\ ~isLoading'
               THEN Snapshot'
               ELSE session

----------------------------------------------------------------------------
(* Bounds of the model                                                     *)

MaxIds == 2

MaxTimers == 2

MaxLoads == 1

MaxPresses == 2

MaxSaves == 2

MaxEvents == 6
\* invocations of the restore effect (React's strict mode runs it twice)
MaxMounts == 2

----------------------------------------------------------------------------
(* History manager: undo, redo and the deferred flag reset                 *)

C1_UndoIndexMutant(index) == index

UndoIndex(index) == index - 1

RedoIndex(index) == index + 1

C34_undoMutant ==
    IF historyIndex > 0
    THEN /\ isUndoingRef' = TRUE
         /\ historyIndex' = UndoIndex(historyIndex)
         /\ annotations' = history[UndoIndex(historyIndex) + 1]
         /\ selectedId' = selectedId
         /\ timers' = timers + 1
    ELSE UNCHANGED <<isUndoingRef, historyIndex, annotations, selectedId, timers>>

\* undo(): restores history[historyIndex - 1] and arms the flag reset
undo ==
    IF historyIndex > 0
    THEN /\ isUndoingRef' = TRUE
         /\ historyIndex' = UndoIndex(historyIndex)
         /\ annotations' = history[UndoIndex(historyIndex) + 1]
         /\ selectedId' = NoId
         /\ timers' = timers + 1
    ELSE UNCHANGED <<isUndoingRef, historyIndex, annotations, selectedId, timers>>

\* redo(): restores history[historyIndex + 1] and arms the flag reset
redo ==
    IF historyIndex < Len(history) - 1
    THEN /\ isUndoingRef' = TRUE
         /\ historyIndex' = RedoIndex(historyIndex)
         /\ annotations' = history[RedoIndex(historyIndex) + 1]
         /\ selectedId' = NoId
         /\ timers' = timers + 1
    ELSE UNCHANGED <<isUndoingRef, historyIndex, annotations, selectedId, timers>>

\* Ctrl+Z or the undo button
Undo ==
    /\ timers < MaxTimers
    /\ undo
    /\ last' = IF canUndo
               THEN [Did("undo") EXCEPT !.before = history[historyIndex + 1]]
               ELSE Did("undoNone")
    /\ UNCHANGED <<fileVars, isEditing, activeTool, fontSize, color, history,
                   gestureVars, clipboard, nextId, xf, saveVars>>
    /\ UNCHANGED <<zoom, restoreVars>>
    /\ saveSession

\* Ctrl+Y, Ctrl+Shift+Z or the redo button
Redo ==
    /\ timers < MaxTimers
    /\ redo
    /\ last' = [Did(IF canRedo THEN "redo" ELSE "redoNone") EXCEPT
                   !.afterUndo = (last.op = "undo"),
                   !.before = IF last.op = "undo" THEN last.before ELSE <<>>]
    /\ UNCHANGED <<fileVars, isEditing, activeTool, fontSize, color, history,
                   gestureVars, clipboard, nextId, xf, saveVars>>
    /\ UNCHANGED <<zoom, restoreVars>>
    /\ saveSession

\* setTimeout(() => { isUndoingRef.current = false; }, 0) fires
TimerFire ==
    /\ timers > 0
    /\ isUndoingRef' = FALSE
    /\ timers' = timers - 1
    /\ UNCHANGED <<fileVars, storeVars, history, historyIndex, gestureVars,
                   clipboard, nextId, xf, saveVars, last>>
    /\ UNCHANGED <<zoom, restoreVars>>
    /\ saveSession

----------------------------------------------------------------------------
(* Interaction controller: clicks                                          *)

\* handleDeselect()
handleDeselect ==
    /\ IF selectedId # NoId
       THEN pushToHistory(annotations)
       ELSE UNCHANGED <<history, historyIndex>>
    /\ selectedId' = NoId
    /\ isEditing' = FALSE

\* the annotation handlePageClick creates at the pointer
NewAnnotation(pos) ==
    [id |-> FreshId, text |-> "", x |-> pos.x, y |-> pos.y, page |-> currentPage + 1,
     fontSize |-> fontSize, color |-> color,
     width |-> DEFAULT_WIDTH, height |-> fontSize * 2 * PT]

\* handlePageClick(e), for a click that did not land on an annotation
handlePageClick(e) ==
    IF activeTool = "text"
    THEN LET newAnnotation == NewAnnotation(getPositionInPoints(e))
             newAnnotations == Append(annotations, newAnnotation)
         IN /\ nextId <= MaxIds
            /\ nextId' = nextId + 1
            /\ annotations' = newAnnotations
            /\ pushToHistory(newAnnotations)
            /\ selectedId' = newAnnotation.id
            /\ isEditing' = TRUE
            /\ activeTool' = "select"
            /\ UNCHANGED <<fontSize, color>>
    ELSE /\ handleDeselect
         /\ UNCHANGED <<annotations, activeTool, fontSize, color, nextId>>

\* handleAnnotationClick(e, id)
handleAnnotationClick(id) ==
    IF selectedId # id
    THEN /\ selectedId' = id
         /\ isEditing' = FALSE
         /\ activeTool' = "select"
         /\ UNCHANGED <<annotations, fontSize, color>>
    ELSE UNCHANGED storeVars

\* the pointer is over the annotation's box
OverBox(e, a) ==
    /\ a.x <= e.x /\ e.x <= a.x + a.width
    /\ a.y <= e.y /\ e.y <= a.y + a.height

\* no annotation of the shown page lies under the pointer
OverPage(e) ==
    \A i \in 1..Len(annotations) :
        annotations[i].page = currentPage + 1 => ~OverBox(e, annotations[i])

\* a press and release on the empty page: the page's onClick
PageClick(e) ==
    /\ Mounted
    /\ pressed = NoId
    /\ OverPage(e)
    /\ handlePageClick(e)
    /\ last' = Did(IF activeTool = "text" THEN "create"
                   ELSE IF selectedId # NoId THEN "deselect" ELSE "deselectNone")
    /\ UNCHANGED <<fileVars, isUndoingRef, timers, gestureVars, clipboard, xf, saveVars>>
    /\ UNCHANGED <<zoom, restoreVars>>
    /\ saveSession

\* handleAnnotationDoubleClick(e, id): the second click of a double click
AnnotationDoubleClick(id) ==
    /\ Rendered(id)
    /\ pressed = NoId
    /\ selectedId = id
    /\ selectedId' = id
    /\ isEditing' = TRUE
    /\ activeTool' = "select"
    /\ last' = Did("doubleClick")
    /\ UNCHANGED <<fileVars, annotations, fontSize, color, histVars, gestureVars,
                   clipboard, nextId, xf, saveVars>>
    /\ UNCHANGED <<zoom, restoreVars>>
    /\ saveSession

\* the sidebar's list entry: setCurrentPage(ann.page - 1); setSelectedId(ann.id)
SidebarSelect(id) ==
    /\ Mounted
    /\ pressed = NoId
    /\ Has(annotations, id)
    /\ currentPage' = Find(annotations, id).page - 1
    /\ selectedId' = id
    /\ last' = Did("sidebar")
    /\ UNCHANGED <<file, pages, pageInfos, isLoading, editorMode, loads, annotations,
                   isEditing, activeTool, fontSize, color, histVars, gestureVars,
                   clipboard, nextId, xf, saveVars>>
    /\ UNCHANGED <<zoom, restoreVars>>
    /\ saveSession

\* the toolbar's select / text buttons
SetActiveTool(tool) ==
    /\ EditorShown
    /\ pressed = NoId
    /\ activeTool # tool
    /\ activeTool' = tool
    /\ last' = Did("tool")
    /\ UNCHANGED <<fileVars, annotations, selectedId, isEditing, fontSize, color,
                   histVars, gestureVars, clipboard, nextId, xf, saveVars>>
    /\ UNCHANGED <<zoom, restoreVars>>
    /\ saveSession

----------------------------------------------------------------------------
(* Interaction controller: drag and resize gestures                        *)

\* the corner of a box that a resize handle sits on
CornerOf(a, corner) ==
    [x |-> IF corner \in {"sw", "nw"} THEN a.x ELSE a.x + a.width,
     y |-> IF corner \in {"ne", "nw"} THEN a.y ELSE a.y + a.height]

\* the pointer is over the 12 x 12 handle centred on that corner
OverHandle(e, a, corner) ==
    /\ Abs(e.x - CornerOf(a, corner).x) <= HANDLE
    /\ Abs(e.y - CornerOf(a, corner).y) <= HANDLE

\* handleAnnotationMouseDown(e, id): selects, or begins a drag of the selection
AnnotationMouseDown(e, id) ==
    /\ Rendered(id)
    /\ pressed = NoId
    /\ presses < MaxPresses
    /\ OverBox(e, Find(annotations, id))
    /\ pressed' = id
    /\ presses' = presses + 1
    /\ IF selectedId # id
       THEN /\ selectedId' = id
            /\ activeTool' = "select"
            /\ UNCHANGED <<dragOffset, isDragging>>
       ELSE LET annotation == Find(annotations, id)
                pos == getPositionInPoints(e)
            IN /\ dragOffset' = [x |-> pos.x - annotation.x, y |-> pos.y - annotation.y]
               /\ isDragging' = TRUE
               /\ UNCHANGED <<selectedId, activeTool>>
    /\ last' = Did(IF selectedId # id THEN "select" ELSE "dragStart")
    /\ UNCHANGED <<fileVars, annotations, isEditing, fontSize, color, histVars,
                   resizeCorner, resizeStart, snapGuides, clipboard, nextId, xf, saveVars>>
    /\ UNCHANGED <<zoom, restoreVars>>
    /\ saveSession

\* handleResizeMouseDown(e, corner), on a handle of the selected annotation
ResizeMouseDown(e, corner) ==
    /\ selectedId # NoId
    /\ Rendered(selectedId)
    /\ pressed = NoId
    /\ LET annotation == Find(annotations, selectedId)
           pos == getPositionInPoints(e)
       IN /\ OverHandle(e, annotation, corner)
          /\ resizeStart' = [x |-> pos.x, y |-> pos.y,
                             width |-> annotation.width, height |-> annotation.height,
                             annX |-> annotation.x, annY |-> annotation.y]
    /\ resizeCorner' = corner
    /\ presses < MaxPresses
    /\ pressed' = selectedId
    /\ presses' = presses + 1
    /\ last' = Did("resizeStart")
    /\ UNCHANGED <<fileVars, storeVars, histVars, isDragging, dragOffset, snapGuides,
                   clipboard, nextId, xf, saveVars>>
    /\ UNCHANGED <<zoom, restoreVars>>
    /\ saveSession

\* the raw position of a dragged box: the pointer less the grab offset, clamped
\* to the page less the box
RawPosition(pos, ann) ==
    [x |-> Max(0, Min(currentDims.width - ann.width, pos.x - dragOffset.x)),
     y |-> Max(0, Min(currentDims.height - ann.height, pos.y - dragOffset.y))]

\* handleMouseMove(e): the window listener, present while dragging or resizing
MouseMove(e) ==
    /\ isDragging \/ resizeCorner # NoCorner
    /\ LET pos == getPositionInPoints(e)
           ann == Find(annotations, selectedId)
           returns == selectedId = NoId \/ (isDragging /\ ann = NoClip)
           raw == RawPosition(pos, ann)
           snap == applySnapping(raw.x, raw.y, ann.width, ann.height, selectedId,
                                 annotations, currentPage, currentDims)
           dragged == IF isDragging
                      THEN MapId(annotations, selectedId,
                                 [ann EXCEPT !.x = snap.x, !.y = snap.y])
                      ELSE annotations
           box == ResizeBox(resizeCorner, resizeStart,
                            pos.x - resizeStart.x, pos.y - resizeStart.y)
           resized == IF resizeCorner # NoCorner
                      THEN [i \in 1..Len(dragged) |->
                               IF dragged[i].id = selectedId
                               THEN [dragged[i] EXCEPT !.x = box.x, !.y = box.y,
                                        !.width = box.width, !.height = box.height]
                               ELSE dragged[i]]
                      ELSE dragged
       IN IF returns
          THEN /\ UNCHANGED <<annotations, snapGuides>>
               /\ last' = Did("moveNone")
          ELSE /\ annotations' = resized
               /\ snapGuides' = IF isDragging THEN snap.guides ELSE snapGuides
               /\ last' = IF isDragging
                          THEN [Did("drag") EXCEPT !.rawX = raw.x, !.rawY = raw.y]
                          ELSE [Did("resize") EXCEPT !.dx = pos.x - resizeStart.x,
                                                     !.dy = pos.y - resizeStart.y]
    /\ UNCHANGED <<fileVars, selectedId, isEditing, activeTool, fontSize, color,
                   histVars, isDragging, resizeCorner, dragOffset, resizeStart,
                   pressed, presses, clipboard, nextId, xf, saveVars>>
    /\ UNCHANGED <<zoom, restoreVars>>
    /\ saveSession

C24_MouseUpMutant(e, target) ==
    /\ pressed # NoId
    /\ pressed' = NoId
    /\ IF isDragging \/ resizeCorner # NoCorner
       THEN /\ isDragging' = FALSE
            /\ resizeCorner' = NoCorner
            /\ UNCHANGED snapGuides
       ELSE UNCHANGED <<isDragging, resizeCorner, snapGuides>>
    /\ CASE target = "annotation" ->
              /\ Rendered(pressed)
              /\ handleAnnotationClick(pressed)
              /\ UNCHANGED <<history, historyIndex, nextId>>
         [] target = "page" ->
              /\ Mounted
              /\ handlePageClick(e)
         [] OTHER ->
              UNCHANGED <<storeVars, history, historyIndex, nextId>>
    /\ last' = Did("mouseUp")
    /\ UNCHANGED <<fileVars, isUndoingRef, timers, dragOffset, resizeStart, presses,
                   clipboard, xf, saveVars>>
    /\ UNCHANGED <<zoom, restoreVars>>
    /\ saveSession

\* the button is released: handleMouseUp (the window listener, present while
\* dragging or resizing), then the click the release produces, which lands on
\* the annotation, on the page behind it, or nowhere
MouseUp(e, target) ==
    /\ pressed # NoId
    /\ pressed' = NoId
    /\ IF isDragging \/ resizeCorner # NoCorner
       THEN /\ isDragging' = FALSE
            /\ resizeCorner' = NoCorner
            /\ snapGuides' = <<>>
       ELSE UNCHANGED <<isDragging, resizeCorner, snapGuides>>
    /\ CASE target = "annotation" ->
              /\ Rendered(pressed)
              /\ handleAnnotationClick(pressed)
              /\ UNCHANGED <<history, historyIndex, nextId>>
         [] target = "page" ->
              /\ Mounted
              /\ handlePageClick(e)
         [] OTHER ->
              UNCHANGED <<storeVars, history, historyIndex, nextId>>
    /\ last' = Did("mouseUp")
    /\ UNCHANGED <<fileVars, isUndoingRef, timers, dragOffset, resizeStart, presses,
                   clipboard, xf, saveVars>>
    /\ UNCHANGED <<zoom, restoreVars>>
    /\ saveSession

----------------------------------------------------------------------------
(* Annotation store: text, style, delete                                   *)

C17_UpdateAnnotationTextMutant(id, text) ==
    /\ selectedId = id
    /\ TextareaRendered
    /\ Find(annotations, id).text # text
    /\ annotations' = MapId(annotations, id, [Find(annotations, id) EXCEPT !.text = text])
    /\ pushToHistory(annotations')
    /\ last' = Did("text")
    /\ UNCHANGED <<fileVars, selectedId, isEditing, activeTool, fontSize, color,
                   isUndoingRef, timers, gestureVars, clipboard, nextId, xf, saveVars>>
    /\ UNCHANGED <<zoom, restoreVars>>
    /\ saveSession

\* updateAnnotationText(id, text): a change of the text-edit field
UpdateAnnotationText(id, text) ==
    /\ selectedId = id
    /\ TextareaRendered
    /\ Find(annotations, id).text # text
    /\ annotations' = MapId(annotations, id, [Find(annotations, id) EXCEPT !.text = text])
    /\ last' = Did("text")
    /\ UNCHANGED <<fileVars, selectedId, isEditing, activeTool, fontSize, color,
                   histVars, gestureVars, clipboard, nextId, xf, saveVars>>
    /\ UNCHANGED <<zoom, restoreVars>>
    /\ saveSession

\* updateAnnotationStyle(id, { fontSize: size }), from the annotation's toolbar
UpdateAnnotationFontSize(id, size) ==
    /\ selectedId = id
    /\ Rendered(id)
    /\ pressed = NoId
    /\ LET newAnnotations ==
               MapId(annotations, id, [Find(annotations, id) EXCEPT !.fontSize = size])
       IN /\ annotations' = newAnnotations
          /\ pushToHistory(newAnnotations)
    /\ fontSize' = size
    /\ last' = Did("style")
    /\ UNCHANGED <<fileVars, selectedId, isEditing, activeTool, color, isUndoingRef,
                   timers, gestureVars, clipboard, nextId, xf, saveVars>>
    /\ UNCHANGED <<zoom, restoreVars>>
    /\ saveSession

\* updateAnnotationStyle(id, { color: c }), from the annotation's toolbar
UpdateAnnotationColor(id, c) ==
    /\ selectedId = id
    /\ Rendered(id)
    /\ pressed = NoId
    /\ LET newAnnotations ==
               MapId(annotations, id, [Find(annotations, id) EXCEPT !.color = c])
       IN /\ annotations' = newAnnotations
          /\ pushToHistory(newAnnotations)
    /\ color' = c
    /\ last' = Did("style")
    /\ UNCHANGED <<fileVars, selectedId, isEditing, activeTool, fontSize, isUndoingRef,
                   timers, gestureVars, clipboard, nextId, xf, saveVars>>
    /\ UNCHANGED <<zoom, restoreVars>>
    /\ saveSession

\* removeAnnotation(id)
removeAnnotation(id) ==
    LET newAnnotations == Filter(annotations, id, 0)
    IN /\ annotations' = newAnnotations
       /\ pushToHistory(newAnnotations)
       /\ selectedId' = IF selectedId = id THEN NoId ELSE selectedId

\* the delete button of the header or of the annotation's toolbar
RemoveClick ==
    /\ selectedId # NoId
    /\ EditorShown /\ editorMode = "edit"
    /\ pressed = NoId
    /\ removeAnnotation(selectedId)
    /\ last' = Did("delete")
    /\ UNCHANGED <<fileVars, isEditing, activeTool, fontSize, color, isUndoingRef,
                   timers, gestureVars, clipboard, nextId, xf, saveVars>>
    /\ UNCHANGED <<zoom, restoreVars>>
    /\ saveSession

----------------------------------------------------------------------------
(* Keyboard                                                                *)

\* copyAnnotation(), by Ctrl+C outside the text-edit field
KeyCopy(isEditingText) ==
    /\ ~isEditingText
    /\ selectedId # NoId
    /\ Has(annotations, selectedId)
    /\ clipboard' = Find(annotations, selectedId)
    /\ last' = Did("copy")
    /\ UNCHANGED <<fileVars, storeVars, histVars, gestureVars, nextId, xf, saveVars>>
    /\ UNCHANGED <<zoom, restoreVars>>
    /\ saveSession

\* the annotation pasteAnnotation() appends
PastedAnnotation ==
    [clipboard EXCEPT
        !.id = FreshId,
        !.x = Min(clipboard.x + OFFSET, currentDims.width - clipboard.width),
        !.y = Min(clipboard.y + OFFSET, currentDims.height - clipboard.height),
        !.page = currentPage + 1]

\* pasteAnnotation(), by Ctrl+V outside the text-edit field
KeyPaste(isEditingText) ==
    /\ ~isEditingText
    /\ clipboard # NoClip
    /\ nextId <= MaxIds
    /\ nextId' = nextId + 1
    /\ LET newAnnotation == PastedAnnotation
           newAnnotations == Append(annotations, newAnnotation)
       IN /\ annotations' = newAnnotations
          /\ pushToHistory(newAnnotations)
          /\ selectedId' = newAnnotation.id
    /\ activeTool' = "select"
    /\ last' = Did("paste")
    /\ UNCHANGED <<fileVars, isEditing, fontSize, color, isUndoingRef, timers,
                   gestureVars, clipboard, xf, saveVars>>
    /\ UNCHANGED <<zoom, restoreVars>>
    /\ saveSession

\* Delete or Backspace outside the text-edit field
KeyDelete(isEditingText) ==
    /\ ~isEditingText
    /\ selectedId # NoId
    /\ removeAnnotation(selectedId)
    /\ last' = Did("delete")
    /\ UNCHANGED <<fileVars, isEditing, activeTool, fontSize, color, isUndoingRef,
                   timers, gestureVars, clipboard, nextId, xf, saveVars>>
    /\ UNCHANGED <<zoom, restoreVars>>
    /\ saveSession

\* Delete or Backspace with nothing selected or with the focus in the
\* text-edit field: handleKeyDown does nothing
KeyDeleteIgnored(isEditingText) ==
    /\ selectedId = NoId \/ isEditingText
    /\ last' = Did("deleteKey")
    /\ UNCHANGED <<fileVars, storeVars, histVars, gestureVars, clipboard, nextId, xf,
                   saveVars>>
    /\ UNCHANGED <<zoom, restoreVars>>
    /\ saveSession

\* Escape: leaves a tool panel, else deselects
KeyEscape ==
    /\ IF editorMode # "edit"
       THEN /\ editorMode' = "edit"
            /\ UNCHANGED <<selectedId, isEditing, history, historyIndex>>
       ELSE /\ handleDeselect
            /\ UNCHANGED editorMode
    /\ last' = Did(IF editorMode = "edit" /\ selectedId # NoId THEN "deselect" ELSE "escape")
    /\ UNCHANGED <<file, pages, pageInfos, isLoading, loads, currentPage, annotations,
                   activeTool, fontSize, color, isUndoingRef, timers, gestureVars,
                   clipboard, nextId, xf, saveVars>>
    /\ UNCHANGED <<zoom, restoreVars>>
    /\ saveSession

----------------------------------------------------------------------------
(* Documents: open, close, replace, navigate                               *)

\* handleFileSelected(files), up to its first await
FileSelected(doc) ==
    /\ ~EditorShown
    /\ Cardinality(loads) < MaxLoads
    /\ file' = doc
    /\ annotations' = <<>>
    /\ currentPage' = 0
    /\ selectedId' = NoId
    /\ isLoading' = TRUE
    /\ history' = EmptyHistory
    /\ historyIndex' = 0
    /\ loads' = loads \cup {[kind |-> "select", doc |-> doc, step |-> 1]}
    /\ last' = Did("open")
    /\ error' = NoError
    /\ UNCHANGED <<pages, pageInfos, editorMode, isEditing, activeTool, fontSize, color,
                   isUndoingRef, timers, gestureVars, clipboard, nextId, xf, isProcessing,
                   save, calls, downloads>>
    /\ session' = NoSession
    /\ UNCHANGED <<zoom, restoreVars>>

\* handleFileSelected: the page images arrive (setPages)
LoadPages(l) ==
    /\ l \in loads /\ l.kind = "select" /\ l.step = 1
    /\ pages' = Len(DocPages(l.doc))
    /\ loads' = (loads \ {l}) \cup {[l EXCEPT !.step = 2]}
    /\ UNCHANGED <<file, pageInfos, isLoading, editorMode, currentPage, storeVars,
                   histVars, gestureVars, clipboard, nextId, xf, saveVars, last>>
    /\ UNCHANGED <<zoom, restoreVars>>
    /\ saveSession

\* handleFileSelected: the thumbnails arrive (setPageInfos, setIsLoading(false))
LoadDone(l) ==
    /\ l \in loads /\ l.kind = "select" /\ l.step = 2
    /\ pageInfos' = DocPages(l.doc)
    /\ isLoading' = FALSE
    /\ loads' = loads \ {l}
    /\ UNCHANGED <<file, pages, editorMode, currentPage, storeVars, histVars,
                   gestureVars, clipboard, nextId, xf, saveVars, last>>
    /\ UNCHANGED <<zoom, restoreVars>>
    /\ saveSession

\* handleFileSelected: an await throws (setFile(null), setIsLoading(false))
LoadFailed(l) ==
    /\ l \in loads /\ l.kind = "select"
    /\ file' = NoFile
    /\ isLoading' = FALSE
    /\ loads' = loads \ {l}
    /\ error' = "Failed to load PDF"
    /\ UNCHANGED <<pages, pageInfos, editorMode, currentPage, storeVars, histVars,
                   gestureVars, clipboard, nextId, xf, isProcessing,
                   save, calls, downloads, last>>
    /\ UNCHANGED <<zoom, restoreVars>>
    /\ saveSession

\* resetFile(): the header's close button
ResetFile ==
    /\ EditorShown
    /\ pressed = NoId
    /\ file' = NoFile
    /\ pages' = 0
    /\ pageInfos' = <<>>
    /\ annotations' = <<>>
    /\ currentPage' = 0
    /\ selectedId' = NoId
    /\ history' = EmptyHistory
    /\ historyIndex' = 0
    /\ editorMode' = "edit"
    /\ last' = Did("reset")
    /\ error' = NoError
    /\ UNCHANGED <<isLoading, loads, isEditing, activeTool, fontSize, color,
                   isUndoingRef, timers, gestureVars, clipboard, nextId, xf, isProcessing,
                   save, calls, downloads>>
    /\ zoom' = 100
    /\ session' = NoSession
    /\ UNCHANGED restoreVars

C21_FileUpdateMutant(doc) ==
    /\ file # NoFile
    /\ ~isLoading
    /\ editorMode # "edit"
    /\ Cardinality(loads) < MaxLoads
    /\ file' = doc
    /\ isLoading' = TRUE
    /\ annotations' = <<>>
    /\ selectedId' = NoId
    /\ editorMode' = "edit"
    /\ loads' = loads \cup {[kind |-> "update", doc |-> doc, step |-> 1]}
    /\ last' = Did("update")
    /\ UNCHANGED <<pages, pageInfos, currentPage, isEditing, activeTool, fontSize,
                   color, histVars, gestureVars, clipboard, nextId, xf, saveVars>>
    /\ UNCHANGED <<zoom, restoreVars>>
    /\ saveSession

\* handleFileUpdate(newFile), up to its await: a tool panel replaced the document
FileUpdate(doc) ==
    /\ file # NoFile
    /\ ~isLoading
    /\ editorMode # "edit"
    /\ Cardinality(loads) < MaxLoads
    /\ file' = doc
    /\ isLoading' = TRUE
    /\ annotations' = <<>>
    /\ selectedId' = NoId
    /\ history' = EmptyHistory
    /\ historyIndex' = 0
    /\ editorMode' = "edit"
    /\ loads' = loads \cup {[kind |-> "update", doc |-> doc, step |-> 1]}
    /\ last' = Did("update")
    /\ UNCHANGED <<pages, pageInfos, currentPage, isEditing, activeTool, fontSize,
                   color, isUndoingRef, timers, gestureVars, clipboard, nextId, xf, saveVars>>
    /\ UNCHANGED <<zoom, restoreVars>>
    /\ saveSession

\* handleFileUpdate: the reloaded pages arrive
UpdateDone(l) ==
    /\ l \in loads /\ l.kind = "update"
    /\ pages' = Len(DocPages(l.doc))
    /\ pageInfos' = DocPages(l.doc)
    /\ currentPage' = Min(currentPage, Len(DocPages(l.doc)) - 1)
    /\ isLoading' = FALSE
    /\ loads' = loads \ {l}
    /\ UNCHANGED <<file, editorMode, storeVars, histVars, gestureVars, clipboard,
                   nextId, xf, saveVars, last>>
    /\ UNCHANGED <<zoom, restoreVars>>
    /\ saveSession

\* handleFileUpdate: the reload throws
UpdateFailed(l) ==
    /\ l \in loads /\ l.kind = "update"
    /\ isLoading' = FALSE
    /\ loads' = loads \ {l}
    /\ error' = "Failed to reload PDF"
    /\ UNCHANGED <<file, pages, pageInfos, editorMode, currentPage, storeVars,
                   histVars, gestureVars, clipboard, nextId, xf, isProcessing,
                   save, calls, downloads, last>>
    /\ UNCHANGED <<zoom, restoreVars>>
    /\ saveSession

ZOOM_LEVELS == <<25, 50, 75, 100, 125, 150, 200, 300>>

\* ZOOM_LEVELS.findIndex((z) => z >= zoom): 0-based, -1 when there is none
FindZoomIndex(z) ==
    IF \E i \in 1..Len(ZOOM_LEVELS) : ZOOM_LEVELS[i] >= z
    THEN (CHOOSE i \in 1..Len(ZOOM_LEVELS) :
              /\ ZOOM_LEVELS[i] >= z
              /\ \A j \in 1..(i - 1) : ZOOM_LEVELS[j] < z) - 1
    ELSE -1

\* zoomIn(): the zoom-in button, disabled at the highest level
ZoomIn ==
    /\ EditorShown
    /\ pressed = NoId
    /\ ~(zoom >= ZOOM_LEVELS[Len(ZOOM_LEVELS)])
    /\ LET currentIndex == FindZoomIndex(zoom)
       IN zoom' = IF currentIndex < Len(ZOOM_LEVELS) - 1
                  THEN ZOOM_LEVELS[currentIndex + 2]
                  ELSE zoom
    /\ last' = Did("zoom")
    /\ UNCHANGED <<fileVars, storeVars, histVars, gestureVars, clipboard, nextId, xf,
                   saveVars, restoreVars>>
    /\ saveSession

\* zoomOut(): the zoom-out button, disabled at the lowest level
ZoomOut ==
    /\ EditorShown
    /\ pressed = NoId
    /\ ~(zoom <= ZOOM_LEVELS[1])
    /\ LET currentIndex == FindZoomIndex(zoom)
       IN zoom' = IF currentIndex > 0 THEN ZOOM_LEVELS[currentIndex]
                  ELSE IF currentIndex = 0 /\ zoom > ZOOM_LEVELS[1] THEN ZOOM_LEVELS[1]
                  ELSE zoom
    /\ last' = Did("zoom")
    /\ UNCHANGED <<fileVars, storeVars, histVars, gestureVars, clipboard, nextId, xf,
                   saveVars, restoreVars>>
    /\ saveSession

\* resetZoom(): the zoom percentage button
ResetZoom ==
    /\ EditorShown
    /\ pressed = NoId
    /\ zoom' = 100
    /\ last' = Did("zoom")
    /\ UNCHANGED <<fileVars, storeVars, histVars, gestureVars, clipboard, nextId, xf,
                   saveVars, restoreVars>>
    /\ saveSession

\* a tool button of the header: setEditorMode(editorMode === mode ? 'edit' : mode)
SetEditorMode(mode) ==
    /\ EditorShown
    /\ pressed = NoId
    /\ editorMode' = IF editorMode = mode THEN "edit" ELSE mode
    /\ last' = Did("mode")
    /\ UNCHANGED <<file, pages, pageInfos, isLoading, loads, currentPage, storeVars,
                   histVars, gestureVars, clipboard, nextId, xf, saveVars>>
    /\ UNCHANGED <<zoom, restoreVars>>
    /\ saveSession

\* the previous-page button: setCurrentPage(p => Math.max(0, p - 1))
PreviousPage ==
    /\ EditorShown
    /\ pressed = NoId
    /\ currentPage # 0
    /\ currentPage' = Max(0, currentPage - 1)
    /\ last' = Did("page")
    /\ UNCHANGED <<file, pages, pageInfos, isLoading, editorMode, loads, storeVars,
                   histVars, gestureVars, clipboard, nextId, xf, saveVars>>
    /\ UNCHANGED <<zoom, restoreVars>>
    /\ saveSession

\* the next-page button: setCurrentPage(p => Math.min(pages.length - 1, p + 1))
NextPage ==
    /\ EditorShown
    /\ pressed = NoId
    /\ currentPage # pages - 1
    /\ currentPage' = Min(pages - 1, currentPage + 1)
    /\ last' = Did("page")
    /\ UNCHANGED <<file, pages, pageInfos, isLoading, editorMode, loads, storeVars,
                   histVars, gestureVars, clipboard, nextId, xf, saveVars>>
    /\ UNCHANGED <<zoom, restoreVars>>
    /\ saveSession

----------------------------------------------------------------------------
(* Save: handleSave and the document mutator addTextToPDF                  *)

\* the characters String.prototype.trim removes, as far as the texts here go
WhiteSpace == {" ", "\n"}

RECURSIVE trimStart(_)
trimStart(t) ==
    IF Len(t) > 0 /\ SubSeq(t, 1, 1) \in WhiteSpace
    THEN trimStart(SubSeq(t, 2, Len(t)))
    ELSE t

RECURSIVE trimEnd(_)
trimEnd(t) ==
    IF Len(t) > 0 /\ SubSeq(t, Len(t), Len(t)) \in WhiteSpace
    THEN trimEnd(SubSeq(t, 1, Len(t) - 1))
    ELSE t

C14_trimMutant(t) == t

\* text.trim()
trim(t) == trimEnd(trimStart(t))

C11_nonEmptyAnnotationsMutant(store) == store

\* annotations.filter((a) => a.text.trim())
nonEmptyAnnotations(store) == SelectSeq(store, LAMBDA a : trim(a.text) # "")

\* a File: the document it was made from and the texts drawn on it since
Loaded(doc) == [base |-> doc, drawn |-> <<>>]

\* the AddTextOptions handleSave builds for an annotation
Options(annotation, infos) ==
    LET info == InfoAt(infos, annotation.page - 1)
        pdf == toDocumentSpace(annotation, info)
    IN [page |-> annotation.page, x |-> pdf.x, y |-> pdf.y,
        fontSize |-> annotation.fontSize, color |-> annotation.color,
        rotation |-> info.rotation]

\* addTextToPDF throws for a page number the document does not have
Throws(pdfData, options) ==
    options.page < 1 \/ options.page > Len(DocPages(pdfData.base))

C12_addTextToPDFMutant(pdfData, text, options) == pdfData

\* addTextToPDF(file, text, options): the document with the text drawn on it
addTextToPDF(pdfData, text, options) ==
    [pdfData EXCEPT !.drawn =
        Append(@, [text |-> text, page |-> options.page, x |-> options.x,
                   y |-> options.y, size |-> options.fontSize,
                   color |-> options.color])]

\* one addTextToPDF call of save number n, as it is made
Call(n, pdfData, annotation, infos) ==
    [save |-> n, file |-> pdfData, text |-> annotation.text,
     options |-> Options(annotation, infos), status |-> "pending"]

\* no handleSave call is running; n have run
Idle(n) == [pc |-> "idle", n |-> n]

NoSave == Idle(0)

\* the calls of the log that belong to save number n
CallsOf(n) == SelectSeq(calls, LAMBDA c : c.save = n)

\* the log with its last call settled
Settled(status) == [calls EXCEPT ![Len(calls)].status = status]

\* handleSave(), up to its first await
handleSave ==
    IF file = NoFile
    THEN UNCHANGED saveVars
    ELSE IF nonEmptyAnnotations(annotations) = <<>>
    THEN /\ error' = "Please add at least one text annotation"
         /\ UNCHANGED <<isProcessing, save, calls, downloads>>
    ELSE LET queue == nonEmptyAnnotations(annotations)
             pdfData == Loaded(file)
         IN /\ isProcessing' = TRUE
            /\ error' = NoError
            /\ save' = [pc |-> "mutating", n |-> save.n + 1, annotations |-> annotations,
                        queue |-> queue, infos |-> pageInfos, k |-> 1,
                        pdfData |-> pdfData]
            /\ calls' = Append(calls, Call(save.n + 1, pdfData, queue[1], pageInfos))
            /\ UNCHANGED downloads

\* the SAVE button of the header, enabled while no save runs, a document is
\* loaded and some annotation has text
SaveClick ==
    /\ EditorShown
    /\ pressed = NoId
    /\ ~isProcessing
    /\ nonEmptyAnnotations(annotations) # <<>>
    /\ file # NoFile
    /\ save.n < MaxSaves
    /\ handleSave
    /\ last' = Did("save")
    /\ UNCHANGED <<fileVars, storeVars, histVars, gestureVars, clipboard, nextId, xf>>
    /\ UNCHANGED <<zoom, restoreVars>>
    /\ saveSession

\* handleSave() called on its own, whatever the store holds
SaveCall ==
    /\ save.pc = "idle"
    /\ save.n < MaxSaves
    /\ handleSave
    /\ last' = Did("save")
    /\ UNCHANGED <<fileVars, storeVars, histVars, gestureVars, clipboard, nextId, xf>>
    /\ UNCHANGED <<zoom, restoreVars>>
    /\ saveSession

C38_MutatorReturnMutant ==
    /\ save.pc = "mutating"
    /\ LET call == calls[Len(calls)]
           pdfData == addTextToPDF(call.file, call.text, call.options)
           queue == nonEmptyAnnotations(annotations)
       IN /\ ~Throws(call.file, call.options)
          /\ IF save.k < Len(queue)
             THEN /\ save' = [save EXCEPT !.k = @ + 1, !.pdfData = pdfData]
                  /\ calls' = Append(Settled("returned"),
                                     Call(save.n, pdfData, queue[save.k + 1], pageInfos))
             ELSE /\ save' = [save EXCEPT !.pc = "reading", !.pdfData = pdfData]
                  /\ calls' = Settled("returned")
    /\ last' = Did("mutatorReturn")
    /\ UNCHANGED <<fileVars, storeVars, histVars, gestureVars, clipboard, nextId, xf,
                   isProcessing, error, downloads>>
    /\ UNCHANGED <<zoom, restoreVars>>
    /\ saveSession

\* the awaited addTextToPDF call returns: pdfData becomes its output and the
\* loop goes on to the next annotation, or to pdfData.arrayBuffer()
MutatorReturn ==
    /\ save.pc = "mutating"
    /\ LET call == calls[Len(calls)]
           pdfData == addTextToPDF(call.file, call.text, call.options)
       IN /\ ~Throws(call.file, call.options)
          /\ IF save.k < Len(save.queue)
             THEN /\ save' = [save EXCEPT !.k = @ + 1, !.pdfData = pdfData]
                  /\ calls' = Append(Settled("returned"),
                                     Call(save.n, pdfData, save.queue[save.k + 1],
                                          save.infos))
             ELSE /\ save' = [save EXCEPT !.pc = "reading", !.pdfData = pdfData]
                  /\ calls' = Settled("returned")
    /\ last' = Did("mutatorReturn")
    /\ UNCHANGED <<fileVars, storeVars, histVars, gestureVars, clipboard, nextId, xf,
                   isProcessing, error, downloads>>
    /\ UNCHANGED <<zoom, restoreVars>>
    /\ saveSession

C13_MutatorThrowMutant ==
    /\ save.pc = "mutating"
    /\ Throws(calls[Len(calls)].file, calls[Len(calls)].options)
    /\ calls' = Settled("thrown")
    /\ error' = "Invalid page number"
    /\ isProcessing' = FALSE
    /\ save' = Idle(save.n)
    /\ last' = Did("mutatorThrow")
    /\ downloads' = Append(downloads, [save |-> save.n, data |-> save.pdfData])
    /\ UNCHANGED <<fileVars, storeVars, histVars, gestureVars, clipboard, nextId, xf>>
    /\ UNCHANGED <<zoom, restoreVars>>
    /\ saveSession

\* the awaited addTextToPDF call throws: catch (setError), finally
MutatorThrow ==
    /\ save.pc = "mutating"
    /\ Throws(calls[Len(calls)].file, calls[Len(calls)].options)
    /\ calls' = Settled("thrown")
    /\ error' = "Invalid page number"
    /\ isProcessing' = FALSE
    /\ save' = Idle(save.n)
    /\ last' = Did("mutatorThrow")
    /\ UNCHANGED <<fileVars, storeVars, histVars, gestureVars, clipboard, nextId, xf,
                   downloads>>
    /\ UNCHANGED <<zoom, restoreVars>>
    /\ saveSession

\* pdfData.arrayBuffer() resolves: downloadFile, finally
SaveDownload ==
    /\ save.pc = "reading"
    /\ downloads' = Append(downloads, [save |-> save.n, data |-> save.pdfData])
    /\ isProcessing' = FALSE
    /\ save' = Idle(save.n)
    /\ last' = Did("download")
    /\ UNCHANGED <<fileVars, storeVars, histVars, gestureVars, clipboard, nextId, xf,
                   error, calls>>
    /\ UNCHANGED <<zoom, restoreVars>>
    /\ saveSession

----------------------------------------------------------------------------
(* The editor                                                              *)

Point(px, py) == [x |-> px * PT, y |-> py * PT]

Corners == {"se", "sw", "ne", "nw"}

Targets == {"annotation", "page", "none"}

NoXf == [call |-> "none"]

\* the component as constructed: the initial values of its state and refs
Constructed(first) ==
    /\ file = NoFile
    /\ pages = 0
    /\ pageInfos = <<>>
    /\ isLoading = FALSE
    /\ editorMode = "edit"
    /\ loads = {}
    /\ currentPage = 0
    /\ annotations = <<>>
    /\ selectedId = NoId
    /\ isEditing = FALSE
    /\ activeTool = "text"
    /\ fontSize = 16
    /\ color = "#000000"
    /\ history = EmptyHistory
    /\ historyIndex = 0
    /\ isUndoingRef = FALSE
    /\ timers = 0
    /\ isDragging = FALSE
    /\ resizeCorner = NoCorner
    /\ dragOffset = [x |-> 0, y |-> 0]
    /\ resizeStart = [x |-> 0, y |-> 0, width |-> 0, height |-> 0, annX |-> 0, annY |-> 0]
    /\ snapGuides = <<>>
    /\ pressed = NoId
    /\ presses = 0
    /\ clipboard = NoClip
    /\ nextId = 1
    /\ xf = NoXf
    /\ isProcessing = FALSE
    /\ error = NoError
    /\ save = NoSave
    /\ calls = <<>>
    /\ downloads = <<>>
    /\ zoom = 100
    /\ isRestoringSession = FALSE
    /\ fatal = FALSE
    /\ requests = 0
    /\ last = first

\* the component once mounted with nothing in the session store: the restore
\* effect has run and returned at its second line; nothing is loaded
Unloaded(first) ==
    /\ Constructed(first)
    /\ session = NoSession
    /\ hasRestoredSession = TRUE
    /\ effects = 1

Init == Unloaded(NoEvent)

\* the inputs of the editor specification
EditorDocs == {"A"}

\* where the page is clicked
EditorPointers == {Point(0, 3), Point(60, 60)}

\* where the pointer is pressed, moved and released
GesturePointers ==
    EditorPointers \cup
    {Point(116, 0), Point(240, 0), Point(4, 35)}

EditorTexts == {"", "Hi"}

EditorFontSizes == {6}

EditorColors == {"#ef4444"}

Ids == 1..MaxIds

\* the editor with one document: create, deselect, delete, undo, redo
Next ==
    \/ \E doc \in EditorDocs : FileSelected(doc)
    \/ \E l \in loads : LoadPages(l)
    \/ \E l \in loads : LoadDone(l)
    \/ ResetFile
    \/ \E tool \in {"select", "text"} : SetActiveTool(tool)
    \/ \E e \in EditorPointers : PageClick(e)
    \/ RemoveClick
    \/ \E f \in FocusChoices : KeyDelete(f)
    \/ Undo
    \/ Redo
    \/ TimerFire

Spec == Init /\ [][Next]_vars

\* the editor with one document: create, restyle, drag, resize
NextGesture ==
    \/ \E doc \in EditorDocs : FileSelected(doc)
    \/ \E l \in loads : LoadPages(l)
    \/ \E l \in loads : LoadDone(l)
    \/ SetActiveTool("text")
    \/ \E e \in EditorPointers : PageClick(e)
    \/ \E id \in Ids, size \in EditorFontSizes : UpdateAnnotationFontSize(id, size)
    \/ \E e \in EditorPointers, id \in Ids : AnnotationMouseDown(e, id)
    \/ \E e \in GesturePointers, corner \in Corners : ResizeMouseDown(e, corner)
    \/ \E e \in GesturePointers : MouseMove(e)
    \/ \E e \in EditorPointers, target \in Targets : MouseUp(e, target)

SpecGesture == Init /\ [][NextGesture]_vars

----------------------------------------------------------------------------
(* Undo and redo                                                           *)

\* C1: an undo that has something to undo sets the store to
\* history[historyIndex - 1] and decrements historyIndex; a redo issued
\* directly after that undo sets the store to history[historyIndex + 1], which
\* is the snapshot that was current before the undo, and increments
\* historyIndex.
C1_UndoThenRedo ==
    [][ /\ (Undo /\ canUndo) =>
            /\ annotations' = history[(historyIndex - 1) + 1]
            /\ historyIndex' = historyIndex - 1
        /\ (Redo /\ last.op = "undo") =>
            /\ annotations' = history[(historyIndex + 1) + 1]
            /\ annotations' = last.before
            /\ historyIndex' = historyIndex + 1 ]_vars

\* a redo directly after an undo has brought two annotations back
C1_Witness ==
    /\ last.op = "redo"
    /\ last.afterUndo
    /\ Len(annotations) = 2
    /\ annotations = last.before

\* a step whose handler calls pushToHistory: a create, a deselect of a selected
\* annotation, a delete, a paste, a style change
PushCall ==
    \/ \E e \in EditorPointers :
          PageClick(e) /\ (activeTool = "text" \/ selectedId # NoId)
    \/ RemoveClick
    \/ \E f \in FocusChoices : KeyDelete(f)
    \/ \E f \in FocusChoices : KeyPaste(f)
    \/ KeyEscape /\ editorMode = "edit" /\ selectedId # NoId
    \/ \E id \in Ids, size \in EditorFontSizes : UpdateAnnotationFontSize(id, size)
    \/ \E id \in Ids, c \in EditorColors : UpdateAnnotationColor(id, c)

\* C2: a pushToHistory performed while historyIndex = i < Len(history) - 1
\* discards every entry after position i, stores the new snapshot at position
\* i + 1 and makes it current; afterwards canRedo is false, and a redo changes
\* neither the store nor the index.
C2_PushDiscardsRedo ==
    [][ /\ (PushCall /\ historyIndex < Len(history) - 1) =>
            /\ history' = Append(SubSeq(history, 1, historyIndex + 1), annotations')
            /\ historyIndex' = historyIndex + 1
            /\ historyIndex' = Len(history') - 1
        /\ (Redo /\ ~canRedo) => UNCHANGED <<annotations, historyIndex>> ]_vars

\* C3: 1 <= Len(history) <= MAX_HISTORY and 0 <= historyIndex <= Len(history) - 1
\* in every reachable state, and a push at the tail of a full history evicts
\* the oldest entry and leaves historyIndex at the newly pushed, last entry.
C3_HistoryBounded ==
    [][ /\ 1 <= Len(history') /\ Len(history') <= MAX_HISTORY
        /\ 0 <= historyIndex' /\ historyIndex' <= Len(history') - 1
        /\ (PushCall /\ Len(history) = MAX_HISTORY /\ historyIndex = MAX_HISTORY - 1) =>
            /\ history' = Append(Tail(history), annotations')
            /\ historyIndex' = MAX_HISTORY - 1 ]_vars

----------------------------------------------------------------------------
(* Drag and resize                                                         *)

\* a pointer-move that moves the dragged annotation
DragMove ==
    /\ isDragging
    /\ \E e \in GesturePointers : MouseMove(e)
    /\ last'.op = "drag"

\* a pointer-move that resizes the selected annotation
ResizeMove ==
    /\ resizeCorner # NoCorner
    /\ \E e \in GesturePointers : MouseMove(e)
    /\ last'.op = "resize"

\* the selected annotation, before and after the step
Selected == Find(annotations, selectedId)

SelectedNext == Find(annotations', selectedId)

\* C4: in every reachable state every annotation in the store has
\* width >= 20 and height >= 10.
C4_MinimumSize ==
    \A i \in 1..Len(annotations) :
        annotations[i].width >= 20 * PT /\ annotations[i].height >= 10 * PT

\* C5: after every pointer-move of a drag the dragged annotation satisfies
\* 0 <= x <= pageWidth - width and 0 <= y <= pageHeight - height.
C5_DragStaysOnPage ==
    [][ DragMove =>
            /\ 0 <= SelectedNext.x
            /\ SelectedNext.x <= currentDims.width - SelectedNext.width
            /\ 0 <= SelectedNext.y
            /\ SelectedNext.y <= currentDims.height - SelectedNext.height ]_vars

\* the gesture began on a box with x >= 0, y >= 0, width >= 20, height >= 10
ValidStart ==
    /\ resizeStart.annX >= 0 /\ resizeStart.annY >= 0
    /\ resizeStart.width >= 20 * PT /\ resizeStart.height >= 10 * PT

\* C6: a resize that starts from a box with x >= 0, y >= 0, width >= 20 and
\* height >= 10 leaves, after every pointer-move, width >= 20, height >= 10,
\* x >= 0 and y >= 0.
C6_ResizeKeepsValid ==
    [][ (ResizeMove /\ ValidStart) =>
            /\ SelectedNext.width >= 20 * PT /\ SelectedNext.height >= 10 * PT
            /\ SelectedNext.x >= 0 /\ SelectedNext.y >= 0 ]_vars

\* a resize from a valid box has hit the left page edge and the minimum height
C6_Witness ==
    /\ last.op = "resize"
    /\ ValidStart
    /\ resizeStart.annX + last.dx < 0
    /\ Selected.x = 0
    /\ Selected.height = 10 * PT
    /\ resizeStart.height > 10 * PT

\* C7: in a resize from sw, nw or ne, whenever the moved edge's computed
\* position (pre-resize x + dx, resp. y + dy) is negative, the resulting x
\* (resp. y) is 0 and the resulting width (resp. height) is the min-clamped new
\* dimension plus that negative amount, which for a box that started at a
\* non-negative position is pre-resize width + x (resp. height + y); a resize
\* from se never changes x or y.
C7_OverflowAbsorbed ==
    [][ ResizeMove =>
          LET rs == resizeStart
              dx == last'.dx
              dy == last'.dy
              clampedW == IF rs.width - dx > 20 * PT THEN rs.width - dx ELSE 20 * PT
              clampedH == IF rs.height - dy > 10 * PT THEN rs.height - dy ELSE 10 * PT
          IN /\ (resizeCorner \in {"sw", "nw"} /\ rs.annX + dx < 0) =>
                   /\ SelectedNext.x = 0
                   /\ SelectedNext.width = clampedW + (rs.annX + dx)
                   /\ rs.annX >= 0 => SelectedNext.width = rs.width + rs.annX
             /\ (resizeCorner \in {"ne", "nw"} /\ rs.annY + dy < 0) =>
                   /\ SelectedNext.y = 0
                   /\ SelectedNext.height = clampedH + (rs.annY + dy)
                   /\ rs.annY >= 0 => SelectedNext.height = rs.height + rs.annY
             /\ resizeCorner = "se" =>
                   /\ SelectedNext.x = Selected.x
                   /\ SelectedNext.y = Selected.y ]_vars

\* a resize from sw pushed the left edge of a box at x >= 0 off the page
C7_Witness ==
    /\ last.op = "resize"
    /\ resizeCorner = "sw"
    /\ resizeStart.annX >= 0
    /\ resizeStart.annX + last.dx < 0
    /\ Selected.x = 0
    /\ Selected.width = resizeStart.width + resizeStart.annX

----------------------------------------------------------------------------
(* Snapping while dragging                                                 *)

\* the siblings of the dragged annotation on the shown page
Siblings ==
    {a \in Range(annotations) : a.id # selectedId /\ a.page = currentPage + 1}

\* every x a box edge or centre can snap to while the selection is dragged
SnapXs ==
    {0, currentDims.width \div 2, currentDims.width}
    \cup UNION {{a.x, a.x + a.width \div 2, a.x + a.width} : a \in Siblings}

\* the positions of the vertical guides shown after the step, with repeats
VerticalGuidesNext ==
    {i \in 1..Len(snapGuides') : snapGuides'[i].type = "vertical"}

\* the raw left edge is within the threshold of p
LeftWithin(raw, p) == Abs(raw - p) < 5 * PT

Undisputed(raw, width, p) ==
    /\ \A q \in SnapXs : LeftWithin(raw, q) => q = p
    /\ \A q \in SnapXs : ~LeftWithin(raw + width \div 2, q)
    /\ \A q \in SnapXs : ~LeftWithin(raw + width, q)

----------------------------------------------------------------------------
(* applySnapping on its own                                                *)

Box(id, x, y, width, height) ==
    [id |-> id, text |-> "", x |-> x * PT, y |-> y * PT, page |-> 1,
     fontSize |-> 16, color |-> "#000000", width |-> width * PT, height |-> height * PT]

\* the stores a restored session brings: no, one or two annotations on page 1
SnapStores ==
    { <<>>,
      << Box(1, 30, 30, 44, 44) >>,
      << Box(1, 30, 30, 44, 44), Box(2, 31, 31, 44, 44) >>,
      << Box(1, 31, 31, 44, 44), Box(2, 30, 30, 44, 44) >> }

\* the raw boxes handed to applySnapping
SnapXs0 == {0, 4, 25, 26, 28, 48, 117, 224}

SnapYs0 == {0, 25, 28, 60}

SnapSizes == {20, 120}

\* a session restored from the session store, its document loaded
RestoredAt(store, infos, first) ==
    /\ file = "A"
    /\ pages = 1
    /\ pageInfos = infos
    /\ isLoading = FALSE
    /\ editorMode = "edit"
    /\ loads = {}
    /\ currentPage = 0
    /\ annotations = store
    /\ selectedId = NoId
    /\ isEditing = FALSE
    /\ activeTool = "text"
    /\ fontSize = 16
    /\ color = "#000000"
    /\ history = <<store>>
    /\ historyIndex = 0
    /\ isUndoingRef = FALSE
    /\ timers = 0
    /\ isDragging = FALSE
    /\ resizeCorner = NoCorner
    /\ dragOffset = [x |-> 0, y |-> 0]
    /\ resizeStart = [x |-> 0, y |-> 0, width |-> 0, height |-> 0, annX |-> 0, annY |-> 0]
    /\ snapGuides = <<>>
    /\ pressed = NoId
    /\ presses = 0
    /\ clipboard = NoClip
    /\ nextId = Len(store) + 1
    /\ isProcessing = FALSE
    /\ error = NoError
    /\ save = NoSave
    /\ calls = <<>>
    /\ downloads = <<>>
    /\ zoom = 100
    /\ session = Snapshot
    /\ hasRestoredSession = TRUE
    /\ isRestoringSession = FALSE
    /\ fatal = FALSE
    /\ effects = 1
    /\ requests = 1
    /\ last = first

\* the same with no event counted
Restored(store, infos) == RestoredAt(store, infos, NoEvent)

InitSnap ==
    /\ \E store \in SnapStores : Restored(store, DocPages("A"))
    /\ \E x \in SnapXs0, y \in SnapYs0, size \in SnapSizes :
          xf = [call |-> "applySnapping", done |-> FALSE,
                x |-> x * PT, y |-> y * PT, width |-> size * PT, height |-> size * PT,
                out |-> [x |-> 0, y |-> 0, guides |-> <<>>]]

\* applySnapping(x, y, width, height, excludeId) for a box that is not in the store
ApplySnapping ==
    /\ xf.call = "applySnapping"
    /\ ~xf.done
    /\ xf' = [xf EXCEPT
                 !.done = TRUE,
                 !.out = applySnapping(xf.x, xf.y, xf.width, xf.height, NoId,
                                       annotations, currentPage, currentDims)]
    /\ UNCHANGED <<fileVars, storeVars, histVars, gestureVars, clipboard, nextId,
                   saveVars, last>>
    /\ UNCHANGED <<zoom, restoreVars>>
    /\ saveSession

NextSnap == ApplySnapping

SpecSnap == InitSnap /\ [][NextSnap]_vars

\* the snap points of an axis in list order: page near edge, page centre, page
\* far edge, then left/top, centre, right/bottom of each sibling in store order
ListedPoints(axis) ==
    LET size == IF axis = "x" THEN currentDims.width ELSE currentDims.height
        of(a) == IF axis = "x" THEN <<a.x, a.x + a.width \div 2, a.x + a.width>>
                 ELSE <<a.y, a.y + a.height \div 2, a.y + a.height>>
        page == <<0, size \div 2, size>>
    IN IF Len(annotations) = 0 THEN page
       ELSE IF Len(annotations) = 1 THEN page \o of(annotations[1])
       ELSE page \o of(annotations[1]) \o of(annotations[2])

\* the representative offsets of a box on an axis
Offsets(pos, size) == <<pos, pos + size \div 2, pos + size>>

\* the snap points strictly closer than 5 units to an offset, as list indices
Hits(offset, points) ==
    {k \in 1..Len(points) : Abs(offset - points[k]) < 5 * PT}

\* the offsets that have a hit
Hitting(pos, size, points) ==
    {i \in 1..3 : Hits(Offsets(pos, size)[i], points) # {}}

Lowest(S) == CHOOSE k \in S : \A j \in S : k <= j

Highest(S) == CHOOSE k \in S : \A j \in S : k >= j

\* the coordinate that offset i and its first hit give
SnappedBy(i, pos, size, points) ==
    LET offset == Offsets(pos, size)[i]
    IN pos + (points[Lowest(Hits(offset, points))] - offset)

\* the first pair (offset, snap point) in scan order decides
FirstPairWins(pos, size, points) ==
    IF Hitting(pos, size, points) = {} THEN pos
    ELSE SnappedBy(Lowest(Hitting(pos, size, points)), pos, size, points)

\* the last offset that has a hit decides, by its first hit
LastOffsetWins(pos, size, points) ==
    IF Hitting(pos, size, points) = {} THEN pos
    ELSE SnappedBy(Highest(Hitting(pos, size, points)), pos, size, points)

----------------------------------------------------------------------------
(* The output transform on its own                                         *)

\* the rotations and origins the page-info service reports for the saved page
SavedRotations == {0, 90, 180, 270, 45, 360}

SavedOrigins == {<<0, 0>>, <<5, 7>>}

\* the annotations being saved
SavedXs == {0, 10, 100}

SavedYs == {0, 20}

SavedFontSizes == {6, 16, 72}

\* a restored session with one annotation with text, on a page of 300 x 400
\* units with the drawn origin and rotation
InitTransform ==
    \E x \in SavedXs, y \in SavedYs, fs \in SavedFontSizes,
       rot \in SavedRotations, origin \in SavedOrigins :
        LET a == [Box(1, x, y, 120, 2 * fs) EXCEPT !.text = "Hi", !.fontSize = fs]
            info == PageInfo(300 * PT, 400 * PT, origin[1] * PT, origin[2] * PT, rot)
        IN /\ Restored(<<a>>, <<info>>)
           /\ xf = [call |-> "handleSave", done |-> FALSE, out |-> [x |-> 0, y |-> 0]]

\* handleSave: the point computed for the annotation and handed to addTextToPDF
Transform ==
    /\ xf.call = "handleSave"
    /\ ~xf.done
    /\ file # NoFile
    /\ annotations # <<>>
    /\ annotations[1].text # ""
    /\ xf' = [xf EXCEPT
                 !.done = TRUE,
                 !.out = toDocumentSpace(annotations[1],
                                         InfoAt(pageInfos, annotations[1].page - 1))]
    /\ UNCHANGED <<fileVars, storeVars, histVars, gestureVars, clipboard, nextId,
                   saveVars, last>>
    /\ UNCHANGED <<zoom, restoreVars>>
    /\ saveSession

NextTransform == Transform

SpecTransform == InitTransform /\ [][NextTransform]_vars

\* C10: the point handed to the Document Mutator is, with b = 0.8 * fontSize
\* and width, height the unrotated page box: for rotation 0
\* (x + offsetX, height - y - b + offsetY); for 90 (y + offsetX, x + b + offsetY);
\* for 180 (width - x - offsetX, y + b + offsetY); for 270
\* (height - y + offsetX, width - x - b + offsetY); for any other rotation the
\* rotation-0 result.
C10_OutputTransform ==
    (xf.call = "handleSave" /\ xf.done) =>
        LET a == annotations[1]
            i == pageInfos[1]
            b == (a.fontSize * PT * 4) \div 5
            r0 == <<a.x + i.offsetX, i.height - a.y - b + i.offsetY>>
            out == <<xf.out.x, xf.out.y>>
        IN /\ i.rotation = 0 => out = r0
           /\ i.rotation = 90 => out = <<a.y + i.offsetX, a.x + b + i.offsetY>>
           /\ i.rotation = 180 => out = <<i.width - a.x - i.offsetX, a.y + b + i.offsetY>>
           /\ i.rotation = 270 =>
                  out = <<i.height - a.y + i.offsetX, i.width - a.x - b + i.offsetY>>
           /\ i.rotation \notin {0, 90, 180, 270} => out = r0

\* an annotation off the origin was saved on a page rotated by 270 with a
\* shifted origin
C10_Witness ==
    /\ xf.call = "handleSave" /\ xf.done
    /\ pageInfos[1].rotation = 270
    /\ pageInfos[1].offsetX # 0
    /\ annotations[1].x # 0 /\ annotations[1].y # 0
    /\ xf.out.x = pageInfos[1].height - annotations[1].y + pageInfos[1].offsetX

----------------------------------------------------------------------------
(* Saving                                                                  *)

\* the texts of the annotations of a restored session
SaveTexts == {"", " \n", "Hi", " a "}

\* their pages; the document has one page, and a session saved after a failed
\* reload keeps annotations placed on a page the document no longer has
SavePages == {1, 2}

\* where they are, by id
SaveAt == << <<50, 50>>, <<10, 100>>, <<100, 20>> >>

Noted(id, text, page) ==
    [Box(id, SaveAt[id][1], SaveAt[id][2], 120, 32) EXCEPT !.text = text, !.page = page]

\* the stores a restored session brings: up to three annotations
SaveStores ==
    UNION { { [i \in 1..n |-> Noted(i, texts[i], ps[i])] :
                texts \in [1..n -> SaveTexts], ps \in [1..n -> SavePages] } :
            n \in 0..3 }

InitSave ==
    /\ \E store \in SaveStores : Restored(store, DocPages("A"))
    /\ xf = NoXf

\* the restored editor: save, select in the sidebar, delete
NextSave ==
    \/ SaveClick
    \/ MutatorReturn
    \/ MutatorThrow
    \/ SaveDownload
    \/ \E i \in 1..Len(annotations) : SidebarSelect(annotations[i].id)
    \/ \E f \in FocusChoices : KeyDelete(f)

SpecSave == InitSave /\ [][NextSave]_vars

\* the annotation's text has a character that trimming leaves
HasText(a) == \E c \in 1..Len(a.text) : SubSeq(a.text, c, c) \notin WhiteSpace

\* what the mutator is to be given for an annotation of an unrotated page
Handed(a, infos) ==
    LET i == InfoAt(infos, a.page - 1)
    IN [text |-> a.text, page |-> a.page, x |-> a.x + i.offsetX,
        y |-> i.height - a.y - (a.fontSize * PT * 4) \div 5 + i.offsetY]

\* what a call of the log gave the mutator
Given(c) == [text |-> c.text, page |-> c.options.page, x |-> c.options.x, y |-> c.options.y]

Drawn(c) ==
    [text |-> c.text, page |-> c.options.page, x |-> c.options.x, y |-> c.options.y,
     size |-> c.options.fontSize, color |-> c.options.color]

\* C12: within a save the mutator calls are threaded: the first call is given
\* the loaded file, every later call is made only when the call before it has
\* returned and is given that call's output document, and at no time are two
\* calls in flight.
C12_CallsThreaded ==
    /\ Cardinality({i \in 1..Len(calls) : calls[i].status = "pending"}) <= 1
    /\ \A i \in 1..Len(calls) :
          IF i = 1 \/ calls[i - 1].save # calls[i].save
          THEN calls[i].file = [base |-> file, drawn |-> <<>>]
          ELSE /\ calls[i - 1].status = "returned"
               /\ calls[i].file.base = calls[i - 1].file.base
               /\ calls[i].file.drawn =
                      Append(calls[i - 1].file.drawn, Drawn(calls[i - 1]))

\* the third call of a save is in flight, on a document with two texts drawn
C12_Witness ==
    /\ Len(calls) = 3
    /\ calls[3].save = calls[1].save
    /\ calls[3].status = "pending"
    /\ Len(calls[3].file.drawn) = 2
    /\ calls[3].file.drawn[1].text # calls[3].file.drawn[2].text

\* a step of a save: its start, a call returning, a call throwing, the download
SaveStep == SaveClick \/ MutatorReturn \/ MutatorThrow \/ SaveDownload

\* C13: when a mutator call of a save throws, the step sets one error message
\* and puts isProcessing back to false; the thrown call stays the last call of
\* its save and the save downloads nothing; no step of a save changes the
\* annotation store or the history.
C13_ThrowAbortsSave ==
    /\ [](\A i \in 1..Len(calls) :
            calls[i].status = "thrown" =>
                /\ \A j \in 1..Len(calls) : j > i => calls[j].save # calls[i].save
                /\ \A d \in 1..Len(downloads) : downloads[d].save # calls[i].save)
    /\ [][ /\ MutatorThrow =>
               /\ error = NoError
               /\ error' = "Invalid page number"
               /\ isProcessing /\ ~isProcessing'
               /\ downloads' = downloads
           /\ SaveStep => UNCHANGED <<annotations, history, historyIndex>> ]_vars

\* the second call of a save has thrown after the first had returned, with a
\* third annotation with text left uncalled
C13_Witness ==
    /\ last.op = "mutatorThrow"
    /\ Len(calls) = 2
    /\ calls[1].status = "returned"
    /\ calls[2].status = "thrown"
    /\ Len(annotations) = 3
    /\ HasText(annotations[3])
    /\ downloads = <<>>
    /\ error # NoError
    /\ ~isProcessing

----------------------------------------------------------------------------
(* handleSave on its own                                                   *)

\* handleSave called on a restored session, whatever its store holds; the SAVE
\* button itself is disabled while no annotation has text
NextSaveCall ==
    \/ SaveCall
    \/ MutatorReturn
    \/ MutatorThrow
    \/ SaveDownload

SpecSaveCall == InitSave /\ [][NextSaveCall]_vars

\* C14: a save requested while no annotation has non-empty trimmed text sets
\* the validation error, calls the mutator not at all, downloads nothing,
\* leaves isProcessing false, and leaves the annotation store and the history
\* as they are.
C14_NothingToSave ==
    [][ (SaveCall /\ \A i \in 1..Len(annotations) : ~HasText(annotations[i])) =>
            /\ error' = "Please add at least one text annotation"
            /\ calls' = calls
            /\ downloads' = downloads
            /\ ~isProcessing /\ ~isProcessing'
            /\ save'.pc = "idle"
            /\ UNCHANGED <<annotations, history, historyIndex>> ]_vars

\* a save was requested of a store whose annotations hold white space only
C14_Witness ==
    /\ last.op = "save"
    /\ Len(annotations) = 2
    /\ annotations[1].text = " \n"
    /\ annotations[2].text = ""
    /\ error = "Please add at least one text annotation"
    /\ calls = <<>>
    /\ ~isProcessing

----------------------------------------------------------------------------
(* Clicks on annotations                                                   *)

\* the click that ends a press on an annotation that the press found unselected
ClickOnUnselected ==
    /\ last.op = "select"
    /\ \E e \in EditorPointers : MouseUp(e, "annotation")

----------------------------------------------------------------------------
(* Creating by a click                                                     *)

\* the ids of the annotations in a store
IdsOf(store) == {store[i].id : i \in 1..Len(store)}

----------------------------------------------------------------------------
(* The whole editor                                                        *)

\* the documents opened and the documents the tool panels produce
AllDocs == {"A", "B"}

\* the session is short of MaxEvents events
Brief == last.n < MaxEvents

\* every event of the editor, in sessions of at most MaxEvents events
NextEditor ==
    \/ Brief /\ \E doc \in AllDocs : FileSelected(doc)
    \/ \E l \in loads : LoadPages(l)
    \/ \E l \in loads : LoadDone(l)
    \/ \E l \in loads : LoadFailed(l)
    \/ Brief /\ ResetFile
    \/ Brief /\ \E doc \in AllDocs : FileUpdate(doc)
    \/ \E l \in loads : UpdateDone(l)
    \/ \E l \in loads : UpdateFailed(l)
    \/ Brief /\ SetEditorMode("rotate")
    \/ Brief /\ PreviousPage
    \/ Brief /\ NextPage
    \/ Brief /\ ZoomIn
    \/ Brief /\ ZoomOut
    \/ Brief /\ ResetZoom
    \/ Brief /\ \E tool \in {"select", "text"} : SetActiveTool(tool)
    \/ Brief /\ \E e \in EditorPointers : PageClick(e)
    \/ Brief /\ \E id \in Ids : AnnotationDoubleClick(id)
    \/ Brief /\ \E id \in Ids : SidebarSelect(id)
    \/ Brief /\ \E e \in EditorPointers, id \in Ids : AnnotationMouseDown(e, id)
    \/ Brief /\ \E e \in EditorPointers, corner \in Corners : ResizeMouseDown(e, corner)
    \/ Brief /\ \E e \in EditorPointers : MouseMove(e)
    \/ Brief /\ \E e \in EditorPointers, target \in Targets : MouseUp(e, target)
    \/ Brief /\ \E id \in Ids, text \in EditorTexts : UpdateAnnotationText(id, text)
    \/ Brief /\ \E id \in Ids, size \in EditorFontSizes : UpdateAnnotationFontSize(id, size)
    \/ Brief /\ \E id \in Ids, c \in EditorColors : UpdateAnnotationColor(id, c)
    \/ Brief /\ RemoveClick
    \/ Brief /\ \E f \in FocusChoices : KeyCopy(f)
    \/ Brief /\ \E f \in FocusChoices : KeyPaste(f)
    \/ Brief /\ \E f \in FocusChoices : KeyDelete(f)
    \/ Brief /\ \E f \in FocusChoices : KeyDeleteIgnored(f)
    \/ Brief /\ KeyEscape
    \/ Brief /\ Undo
    \/ Brief /\ Redo
    \/ TimerFire

InitEditor == Unloaded([NoEvent EXCEPT !.n = 0])

SpecEditor == InitEditor /\ [][NextEditor]_vars

----------------------------------------------------------------------------
(* What writes the history                                                 *)

\* the click that a release on the page produces: a create or a deselect
ReleaseOnPage == \E e \in EditorPointers : MouseUp(e, "page")

\* create, delete, paste, style change, deselect of a selected annotation
Recorded ==
    \/ PushCall
    \/ ReleaseOnPage /\ (activeTool = "text" \/ selectedId # NoId)

\* a document is opened, replaced by a tool panel, or closed
FileChange ==
    \/ \E doc \in AllDocs : FileSelected(doc)
    \/ \E doc \in AllDocs : FileUpdate(doc)
    \/ ResetFile

\* a keystroke in the text-edit field, a drag or resize move, a release, the
\* selecting of an annotation, a copy, a page change, a zoom change
Unrecorded ==
    \/ \E id \in Ids, text \in EditorTexts : UpdateAnnotationText(id, text)
    \/ \E e \in EditorPointers : MouseMove(e)
    \/ \E e \in EditorPointers, target \in {"annotation", "none"} : MouseUp(e, target)
    \/ \E e \in EditorPointers, id \in Ids : AnnotationMouseDown(e, id)
    \/ \E e \in EditorPointers, corner \in Corners : ResizeMouseDown(e, corner)
    \/ \E id \in Ids : SidebarSelect(id)
    \/ \E f \in FocusChoices : KeyCopy(f)
    \/ PreviousPage
    \/ NextPage
    \/ ZoomIn \/ ZoomOut \/ ResetZoom

\* C17: history changes only on a create, a delete, a paste, a style change,
\* a deselect of a selected annotation and a file load, reload or reset;
\* historyIndex changes only on those and on undo and redo, which leave
\* history itself alone; a keystroke in the text-edit field, a drag or resize
\* move, a release, selecting, copying, zooming and changing the page change
\* neither.
C17_HistoryWriters ==
    [][ /\ history' # history => (Recorded \/ FileChange)
        /\ historyIndex' # historyIndex => (Recorded \/ FileChange \/ Undo \/ Redo)
        /\ (Undo \/ Redo) => history' = history
        /\ Unrecorded => UNCHANGED <<history, historyIndex>> ]_vars

\* a drag has moved an annotation and the current snapshot does not have the move
C17_Witness ==
    /\ last.op = "drag"
    /\ historyIndex = 1
    /\ Len(annotations) = 1
    /\ annotations # history[historyIndex + 1]
    /\ annotations[1].x # history[historyIndex + 1][1].x

\* C18: an undo or redo that has something to restore sets isUndoingRef and
\* arms its zero-delay reset, and only that timer clears the flag; while the
\* flag is set every pushToHistory call leaves history and historyIndex
\* unchanged; undo and redo never add a history entry.
C18_PushIgnoredWhileUndoing ==
    [][ /\ ((Undo /\ canUndo) \/ (Redo /\ canRedo)) =>
               (isUndoingRef' /\ timers' = timers + 1)
        /\ (isUndoingRef /\ ~isUndoingRef') => TimerFire
        /\ (PushCall /\ isUndoingRef) => UNCHANGED <<history, historyIndex>>
        /\ (Undo \/ Redo) => history' = history ]_vars

\* a create was handled between an undo and its reset: the store has the new
\* annotation, the history has not
C18_Witness ==
    /\ last.op = "create"
    /\ isUndoingRef
    /\ timers = 1
    /\ Len(annotations) = 1
    /\ historyIndex = 0
    /\ history[historyIndex + 1] = <<>>

\* C18, as stated: from an undo or redo until its deferred reset has run,
\* that is while a reset is still armed, every pushToHistory call leaves
\* history and historyIndex unchanged; undo and redo never add a history
\* entry.
C18_PushIgnoredUntilReset ==
    [][ /\ (PushCall /\ timers > 0) => UNCHANGED <<history, historyIndex>>
        /\ (Undo \/ Redo) => history' = history ]_vars

----------------------------------------------------------------------------
(* Paste and delete                                                        *)

\* C19: a paste with a filled clipboard appends exactly one annotation: its
\* id is in no annotation of the store, its text, fontSize, color, width and
\* height are the clipboard's, its page is currentPage + 1, its position is
\* (min(clip.x + 10, pageWidth - width), min(clip.y + 10, pageHeight - height));
\* it becomes the selection, a history snapshot with it is pushed and is
\* current, and the clipboard is unchanged.
C19_PasteAppends ==
    [][ (\E f \in FocusChoices : KeyPaste(f)) =>
            /\ clipboard # NoClip
            /\ Len(annotations') = Len(annotations) + 1
            /\ SubSeq(annotations', 1, Len(annotations)) = annotations
            /\ LET new == annotations'[Len(annotations')]
                   pageWidth == currentDims.width
                   pageHeight == currentDims.height
               IN /\ new.id \notin IdsOf(annotations)
                  /\ new.text = clipboard.text
                  /\ new.fontSize = clipboard.fontSize
                  /\ new.color = clipboard.color
                  /\ new.width = clipboard.width
                  /\ new.height = clipboard.height
                  /\ new.page = currentPage + 1
                  /\ new.x = Min(clipboard.x + 10 * PT, pageWidth - new.width)
                  /\ new.y = Min(clipboard.y + 10 * PT, pageHeight - new.height)
                  /\ new.x <= pageWidth - new.width
                  /\ selectedId' = new.id
            /\ history'[historyIndex' + 1] = annotations'
            /\ historyIndex' = Len(history') - 1
            /\ clipboard' = clipboard ]_vars

\* the delete button or the Delete key: removeAnnotation(selectedId)
RemoveCall == RemoveClick \/ \E f \in FocusChoices : KeyDelete(f)

\* C20: removeAnnotation(id) removes exactly the annotation with that id, the
\* others staying as they are and in their order; the selection is cleared
\* when id was selected; the resulting collection is pushed to the history
\* and is current.
C20_RemoveExactlyOne ==
    [][ RemoveCall =>
            LET id == selectedId
            IN /\ annotations' = SelectSeq(annotations, LAMBDA a : a.id # id)
               /\ id \in IdsOf(annotations) => Len(annotations') = Len(annotations) - 1
               /\ selectedId' = NoId
               /\ history'[historyIndex' + 1] = annotations'
               /\ historyIndex' = Len(history') - 1 ]_vars

----------------------------------------------------------------------------
(* Replacing the document                                                  *)

\* C21: when a tool panel replaces the document (handleFileUpdate) the store
\* becomes empty, the selection is cleared and the history is the single
\* empty snapshot at index 0, so that neither undo nor redo is possible; when
\* the reload completes the page geometries are those of the new document
\* and currentPage is the smaller of its previous value and the last page.
C21_UpdateResets ==
    /\ [][ (\E doc \in AllDocs : FileUpdate(doc)) =>
               /\ annotations' = <<>>
               /\ selectedId' = NoId
               /\ history' = << <<>> >>
               /\ historyIndex' = 0
               /\ ~canUndo' /\ ~canRedo' ]_vars
    /\ [][ \A l \in loads : UpdateDone(l) =>
               /\ pageInfos' = DocPages(l.doc)
               /\ pages' = Len(DocPages(l.doc))
               /\ currentPage' = Min(currentPage, Len(DocPages(l.doc)) - 1)
               /\ currentPage' < pages' ]_vars

\* a two-page document with an annotation made on its second page was
\* replaced by a one-page document, and the reload has completed
C21_Witness ==
    /\ last.op = "update"
    /\ loads = {}
    /\ ~isLoading
    /\ file = "A"
    /\ nextId > 1
    /\ annotations = <<>>
    /\ pageInfos = DocPages("A")
    /\ currentPage = 0
    /\ clipboard # NoClip
    /\ clipboard.page = 2

----------------------------------------------------------------------------
(* Restoring the persisted session                                         *)

\* a stored string that JSON.parse rejects
Garbage == [item |-> "garbage"]

\* JSON.parse(savedData) returns an object
Parses(stored) == stored.item = "session"

\* the documents whose bytes the page services accept
Pdfs == {"A", "B"}

\* atob(session.fileData) returns: fileData is base64 ("X": of bytes that are
\* not a document); "%%%" is not base64 and a missing fileData reads as
\* "undefined", which is not base64 either
Decodes(stored) == "fileData" \in DOMAIN stored /\ stored.fileData \in Pdfs \cup {"X"}

\* session.annotations is an array
HasAnnotations(stored) == "annotations" \in DOMAIN stored

C22_MountEffectMutant ==
    /\ ~fatal
    /\ effects < MaxMounts
    /\ effects' = effects + 1
    /\ hasRestoredSession' = TRUE
    /\ IF session = NoSession
       THEN UNCHANGED <<fileVars, storeVars, histVars, zoom, session, isRestoringSession,
                        fatal, requests>>
       ELSE IF ~Parses(session)
       THEN /\ session' = NoSession
            /\ UNCHANGED <<fileVars, storeVars, histVars, zoom, isRestoringSession,
                           fatal, requests>>
       ELSE IF ~Decodes(session)
       THEN /\ isRestoringSession' = TRUE
            /\ session' = NoSession
            /\ UNCHANGED <<fileVars, storeVars, histVars, zoom, fatal, requests>>
       ELSE IF ~HasAnnotations(session)
       THEN \* setAnnotations(undefined): the next render throws at annotations.filter
            /\ isRestoringSession' = TRUE
            /\ fatal' = TRUE
            /\ requests' = requests + 1
            /\ loads' = loads \cup {[kind |-> "restore", doc |-> session.fileData, step |-> 1]}
            /\ UNCHANGED <<file, pages, pageInfos, isLoading, editorMode, currentPage,
                           storeVars, histVars, zoom, session>>
       ELSE /\ isRestoringSession' = TRUE
            /\ file' = session.fileData
            /\ annotations' = session.annotations
            /\ currentPage' = session.currentPage
            /\ fontSize' = session.fontSize
            /\ color' = session.color
            /\ zoom' = session.zoom
            /\ history' = <<session.annotations>>
            /\ historyIndex' = 0
            /\ isLoading' = TRUE
            /\ requests' = requests + 1
            /\ loads' = loads \cup {[kind |-> "restore", doc |-> session.fileData, step |-> 1]}
            /\ UNCHANGED <<pages, pageInfos, editorMode, selectedId, isEditing, activeTool,
                           isUndoingRef, timers, session, fatal>>
    /\ last' = Did("mount")
    /\ UNCHANGED <<gestureVars, clipboard, nextId, xf, saveVars>>

\* the restore effect, run after a mount
MountEffect ==
    /\ ~fatal
    /\ effects < MaxMounts
    /\ effects' = effects + 1
    /\ hasRestoredSession' = TRUE
    /\ IF hasRestoredSession \/ session = NoSession
       THEN UNCHANGED <<fileVars, storeVars, histVars, zoom, session, isRestoringSession,
                        fatal, requests>>
       ELSE IF ~Parses(session)
       THEN /\ session' = NoSession
            /\ UNCHANGED <<fileVars, storeVars, histVars, zoom, isRestoringSession,
                           fatal, requests>>
       ELSE IF ~Decodes(session)
       THEN /\ isRestoringSession' = TRUE
            /\ session' = NoSession
            /\ UNCHANGED <<fileVars, storeVars, histVars, zoom, fatal, requests>>
       ELSE IF ~HasAnnotations(session)
       THEN \* setAnnotations(undefined): the next render throws at annotations.filter
            /\ isRestoringSession' = TRUE
            /\ fatal' = TRUE
            /\ requests' = requests + 1
            /\ loads' = loads \cup {[kind |-> "restore", doc |-> session.fileData, step |-> 1]}
            /\ UNCHANGED <<file, pages, pageInfos, isLoading, editorMode, currentPage,
                           storeVars, histVars, zoom, session>>
       ELSE /\ isRestoringSession' = TRUE
            /\ file' = session.fileData
            /\ annotations' = session.annotations
            /\ currentPage' = session.currentPage
            /\ fontSize' = session.fontSize
            /\ color' = session.color
            /\ zoom' = session.zoom
            /\ history' = <<session.annotations>>
            /\ historyIndex' = 0
            /\ isLoading' = TRUE
            /\ requests' = requests + 1
            /\ loads' = loads \cup {[kind |-> "restore", doc |-> session.fileData, step |-> 1]}
            /\ UNCHANGED <<pages, pageInfos, editorMode, selectedId, isEditing, activeTool,
                           isUndoingRef, timers, session, fatal>>
    /\ last' = Did("mount")
    /\ UNCHANGED <<gestureVars, clipboard, nextId, xf, saveVars>>

\* the restore's Promise.all resolves: then (setPages, setPageInfos,
\* setIsLoading(false)) and finally (isRestoringSession.current = false)
RestoreDone(l) ==
    /\ l \in loads /\ l.kind = "restore"
    /\ l.doc \in Pdfs
    /\ loads' = loads \ {l}
    /\ isRestoringSession' = FALSE
    /\ IF fatal
       THEN UNCHANGED <<pages, pageInfos, isLoading>>
       ELSE /\ pages' = Len(DocPages(l.doc))
            /\ pageInfos' = DocPages(l.doc)
            /\ isLoading' = FALSE
    /\ UNCHANGED <<file, editorMode, currentPage, storeVars, histVars, gestureVars,
                   clipboard, nextId, xf, saveVars, zoom, hasRestoredSession, fatal,
                   effects, requests, last>>
    /\ saveSession

\* the restore's Promise.all rejects: catch (setError, setFile(null),
\* removeItem) and finally
RestoreFailed(l) ==
    /\ l \in loads /\ l.kind = "restore"
    /\ loads' = loads \ {l}
    /\ isRestoringSession' = FALSE
    /\ session' = NoSession
    /\ IF fatal
       THEN UNCHANGED <<file, isLoading, error>>
       ELSE /\ file' = NoFile
            /\ isLoading' = FALSE
            /\ error' = "Failed to restore PDF"
    /\ UNCHANGED <<pages, pageInfos, editorMode, currentPage, storeVars, histVars,
                   gestureVars, clipboard, nextId, xf, isProcessing, save, calls,
                   downloads, zoom, hasRestoredSession, fatal, effects, requests, last>>

\* the sessions found in the session store at a mount
RestoreStores == {<<>>, <<Noted(1, "Hi", 1)>>, <<Noted(1, "Hi", 1), Noted(2, "", 2)>>}

StoredSessions ==
    {NoSession, Garbage}
    \cup [item : {"session"}, fileData : Pdfs \cup {"X", "%%%"}, annotations : RestoreStores,
          currentPage : {0, 1}, fontSize : {6}, color : {"#ef4444"}, zoom : {100, 150}]
    \cup [item : {"session"}, fileData : {"A"}, currentPage : {0}, fontSize : {6},
          color : {"#ef4444"}, zoom : {150}]
    \cup [item : {"session"}, annotations : {<<>>}]

\* the component constructed in a page whose session store holds anything
InitRestore ==
    /\ Constructed([NoEvent EXCEPT !.n = 0])
    /\ session \in StoredSessions
    /\ hasRestoredSession = FALSE
    /\ effects = 0

\* the component is mounted: its effects have run and no render has thrown
Live == hasRestoredSession /\ ~fatal

\* a mount and what can follow it: the restore's outcome, the zoom buttons,
\* the page buttons, closing the document and opening another
NextRestore ==
    \/ MountEffect
    \/ \E l \in loads : RestoreDone(l)
    \/ \E l \in loads : RestoreFailed(l)
    \/ Live /\ Brief /\ ZoomIn
    \/ Live /\ Brief /\ ZoomOut
    \/ Live /\ Brief /\ ResetZoom
    \/ Live /\ Brief /\ PreviousPage
    \/ Live /\ Brief /\ NextPage
    \/ Live /\ Brief /\ ResetFile
    \/ Live /\ Brief /\ \E doc \in Pdfs : FileSelected(doc)
    \/ Live /\ \E l \in loads : LoadPages(l)
    \/ Live /\ \E l \in loads : LoadDone(l)
    \/ Live /\ \E l \in loads : LoadFailed(l)

SpecRestore == InitRestore /\ [][NextRestore]_vars

\* a stored session that parses, decodes and has every field
ValidSession(stored) ==
    /\ Parses(stored)
    /\ Decodes(stored)
    /\ DOMAIN stored = DOMAIN Snapshot

\* the restore effect finds a valid session at the first run after a mount
RestoresValid == MountEffect /\ ~hasRestoredSession /\ ValidSession(session)

\* C22: restoring a valid persisted session sets the store to the session's
\* annotations, resets the history to the single entry [session.annotations]
\* at index 0 (no undo, no redo), restores currentPage, fontSize, color and
\* zoom, and requests the page images of the restored document; the request
\* is made once per mount, however often the effect is invoked.
C22_RestoreRehydrates ==
    /\ [][ RestoresValid =>
               /\ annotations' = session.annotations
               /\ history' = <<session.annotations>>
               /\ historyIndex' = 0
               /\ ~canUndo' /\ ~canRedo'
               /\ currentPage' = session.currentPage
               /\ fontSize' = session.fontSize
               /\ color' = session.color
               /\ zoom' = session.zoom
               /\ file' = session.fileData
               /\ requests' = 1
               /\ loads' = {[kind |-> "restore", doc |-> session.fileData, step |-> 1]} ]_vars
    /\ [][ requests' # requests => RestoresValid \/ ~HasAnnotations(session) ]_vars
    /\ [](requests <= 1)

\* a session with two annotations, page 2, zoom 150 was restored, the effect
\* has been invoked a second time and the document's pages have arrived
C22_Witness ==
    /\ effects = 2
    /\ requests = 1
    /\ last.op = "mount"
    /\ file = "B"
    /\ ~isLoading
    /\ pages = 2
    /\ Len(annotations) = 2
    /\ history = <<annotations>>
    /\ currentPage = 1
    /\ zoom = 150
    /\ fontSize = 6

\* the restore effect finds, at the first run after a mount, a stored item
\* that is not a valid session
RestoresMalformed == MountEffect /\ ~hasRestoredSession /\ session # NoSession
                     /\ ~ValidSession(session)

\* C23: when the persisted session is malformed or undecodable, or the
\* restored document cannot be rasterized, the session is removed from the
\* session store and the editor ends unloaded, with no document, and no
\* render has thrown.
C23_BadSessionDiscarded ==
    /\ [][ RestoresMalformed =>
               session' = NoSession /\ file' = NoFile /\ ~EditorShown' /\ ~fatal' ]_vars
    /\ [][ \A l \in loads : RestoreFailed(l) =>
               session' = NoSession /\ file' = NoFile /\ ~EditorShown' /\ ~fatal' ]_vars

----------------------------------------------------------------------------
(* Snap guides                                                             *)

\* a pointer-move that drags, a pointer-move that only resizes
DragStep == isDragging /\ \E e \in GesturePointers \cup EditorPointers : MouseMove(e)

ResizeOnlyStep ==
    /\ ~isDragging
    /\ resizeCorner # NoCorner
    /\ \E e \in GesturePointers \cup EditorPointers : MouseMove(e)

\* C24: snapGuides is non-empty only while a drag is active; guides are
\* written only by a drag pointer-move, never by a resize pointer-move, and
\* the pointer-up that ends dragging or resizing empties them in that step.
C24_GuidesOnlyWhileDragging ==
    /\ [](snapGuides # <<>> => isDragging)
    /\ [][ snapGuides' # snapGuides /\ snapGuides' # <<>> => DragStep ]_vars
    /\ [][ ResizeOnlyStep => snapGuides' = snapGuides ]_vars
    /\ [][ (isDragging /\ ~isDragging') \/ (resizeCorner # NoCorner /\ resizeCorner' = NoCorner)
               => snapGuides' = <<>> /\ ~isDragging' /\ resizeCorner' = NoCorner ]_vars

\* a drag pointer-move has just written guides
C24_Witness ==
    /\ last.op = "drag"
    /\ isDragging
    /\ resizeCorner = NoCorner
    /\ snapGuides # <<>>
    /\ pressed = selectedId

----------------------------------------------------------------------------
(* The Delete key                                                          *)

\* C25: Delete or Backspace removes the selected annotation, and pushes the
\* result to the history, only when an annotation is selected and the focus
\* is not in the text-edit field; with the focus in the text-edit field, or
\* with nothing selected, the key leaves the store, the selection and the
\* history unchanged.
C25_DeleteKeyOutsideField ==
    [][ \A f \in FocusChoices :
          /\ KeyDelete(f) =>
                /\ selectedId # NoId /\ ~f
                /\ annotations' = SelectSeq(annotations, LAMBDA a : a.id # selectedId)
                /\ selectedId' = NoId
                /\ history'[historyIndex' + 1] = annotations'
                /\ historyIndex' = Len(history') - 1
          /\ KeyDeleteIgnored(f) =>
                UNCHANGED <<annotations, selectedId, history, historyIndex>> ]_vars

----------------------------------------------------------------------------
(* Style changes                                                           *)

\* the store after the step differs from the store before it at most in the
\* fontSize and color of annotation id
StyleOnly(id) ==
    /\ Len(annotations') = Len(annotations)
    /\ \A i \in 1..Len(annotations) :
          IF annotations[i].id = id
          THEN annotations'[i] = [annotations[i] EXCEPT !.fontSize = annotations'[i].fontSize,
                                                        !.color = annotations'[i].color]
          ELSE annotations'[i] = annotations[i]

\* C26: updateAnnotationStyle(id, patch) changes only the fontSize and/or the
\* color of annotation id, sets the editor's default fontSize and color to the
\* patched values, so that the next annotation created has them, and pushes
\* one history snapshot, which is current.
C26_StyleChange ==
    [][ /\ \A id \in Ids, size \in EditorFontSizes :
              UpdateAnnotationFontSize(id, size) =>
                  /\ StyleOnly(id)
                  /\ Find(annotations', id).fontSize = size
                  /\ Find(annotations', id).color = Find(annotations, id).color
                  /\ fontSize' = size /\ color' = color
                  /\ history'[historyIndex' + 1] = annotations'
                  /\ historyIndex' = Len(history') - 1
                  /\ Len(history') = Min(historyIndex + 2, MAX_HISTORY)
        /\ \A id \in Ids, c \in EditorColors :
              UpdateAnnotationColor(id, c) =>
                  /\ StyleOnly(id)
                  /\ Find(annotations', id).color = c
                  /\ Find(annotations', id).fontSize = Find(annotations, id).fontSize
                  /\ color' = c /\ fontSize' = fontSize
                  /\ history'[historyIndex' + 1] = annotations'
                  /\ historyIndex' = Len(history') - 1
                  /\ Len(history') = Min(historyIndex + 2, MAX_HISTORY)
        /\ \A e \in EditorPointers :
              PageClick(e) /\ Len(annotations') = Len(annotations) + 1 =>
                  /\ annotations'[Len(annotations')].fontSize = fontSize
                  /\ annotations'[Len(annotations')].color = color ]_vars

----------------------------------------------------------------------------
(* Pointer to points and back                                              *)

(* The conversion divides, so its values are kept exactly: a number is a    *)
(* fraction n / d with d > 0; a division by zero gives what the double     *)
(* arithmetic of the source gives, an infinity or NaN.  Screen lengths are *)
(* in units of 1 / (100 * PT) pixel, so that 4 * zoom / 100 is exact.      *)
(* Fractions are kept in lowest terms, so equal numbers are equal values.  *)
RECURSIVE Gcd(_, _)
Gcd(a, b) == IF b = 0 THEN a ELSE Gcd(b, a % b)

Num(n, d) ==
    LET g == Gcd(Abs(n), d)
    IN [t |-> "num", n |-> n \div g, d |-> d \div g]

NaN == [t |-> "nan"]

Inf(s) == [t |-> "inf", s |-> s]

Sign(a) == IF a < 0 THEN -1 ELSE 1

\* a / b for two integers
Divide(a, b) ==
    IF b = 0 THEN (IF a = 0 THEN NaN ELSE Inf(Sign(a)))
    ELSE Num(a * Sign(b), Abs(b))

\* v * k for an integer k >= 0
Times(v, k) ==
    CASE v.t = "num" -> LET g == Gcd(v.d, k) IN Num(v.n * (k \div g), v.d \div g)
      [] v.t = "inf" -> IF k = 0 THEN NaN ELSE v
      [] OTHER -> NaN

\* v / k for an integer k >= 0
Over(v, k) ==
    CASE v.t = "num" -> IF k = 0 THEN (IF v.n = 0 THEN NaN ELSE Inf(Sign(v.n)))
                        ELSE LET g == Gcd(Abs(v.n), k)
                             IN Num(v.n \div g, v.d * (k \div g))
      [] v.t = "inf" -> v
      [] OTHER -> NaN

\* Math.min(k, v), Math.max(k, v) for an integer k: NaN if v is NaN
MathMin(k, v) ==
    CASE v.t = "num" -> IF v.n > k * v.d THEN Num(k, 1) ELSE v
      [] v.t = "inf" -> IF v.s > 0 THEN Num(k, 1) ELSE v
      [] OTHER -> NaN

MathMax(k, v) ==
    CASE v.t = "num" -> IF v.n < k * v.d THEN Num(k, 1) ELSE v
      [] v.t = "inf" -> IF v.s < 0 THEN Num(k, 1) ELSE v
      [] OTHER -> NaN

\* borderWidth = 4 * effectiveScale, effectiveScale = zoom / 100
borderWidth(z) == 4 * PT * z

\* contentX = e.clientX - rect.left - borderWidth (contentY likewise)
contentX(client, origin, z) == client - origin - borderWidth(z)

\* contentWidth = rect.width - 2 * borderWidth (contentHeight likewise)
contentWidth(size, z) == size - 2 * borderWidth(z)

\* Math.max(0, Math.min(currentDims.width, x))
Clamped(extent, v) == MathMax(0, MathMin(extent, v))

C29_PositionInPointsMutant(e, rect, z, dims, mounted) ==
    [x |-> Clamped(dims.width,
                   Times(Divide(contentX(e.clientX, rect.left, z),
                                contentWidth(rect.width, z)), dims.width)),
     y |-> Clamped(dims.height,
                   Times(Divide(contentX(e.clientY, rect.top, z),
                                contentWidth(rect.height, z)), dims.height))]

\* getPositionInPoints(e), from the pointer's client position, the bounding
\* rectangle of the page element and the zoom.  (The editor's actions take
\* the pointer already scaled to points and use getPositionInPoints above.)
PositionInPoints(e, rect, z, dims, mounted) ==
    IF ~mounted THEN [x |-> Num(0, 1), y |-> Num(0, 1)]
    ELSE [x |-> Clamped(dims.width,
                        Times(Divide(contentX(e.clientX, rect.left, z),
                                     contentWidth(rect.width, z)), dims.width)),
          y |-> Clamped(dims.height,
                        Times(Divide(contentX(e.clientY, rect.top, z),
                                     contentWidth(rect.height, z)), dims.height))]

C28_toPercentXMutant(points, dims) == Times(Over(points, dims.height), 100)

\* toPercentX(points) = (points / currentDims.width) * 100 (toPercentY likewise)
toPercentX(points, dims) == Times(Over(points, dims.width), 100)

toPercentY(points, dims) == Times(Over(points, dims.height), 100)

\* the page element is laid out width x height pixels and scaled by the zoom
\* from its top left corner; its 4-pixel border is inside that size when
\* box-sizing is border-box and around it when it is content-box
BoxModels == {"border-box", "content-box"}

Layout(left, top, box, z, dims) ==
    LET around == IF box = "content-box" THEN 8 * PT ELSE 0
    IN [left |-> left, top |-> top,
        width |-> (dims.width + around) * z, height |-> (dims.height + around) * z]

\* where the page element is on the screen: its top left corner
RectOrigins == {[left |-> 0, top |-> 0], [left |-> 37 * 100 * PT, top |-> 12 * 100 * PT]}

\* the pointer, as a part of the content box in eighths: from half a box
\* before it to half a box after it
PointerParts == {-4, 0, 2, 3, 4, 8, 12}

PointerAt(part, origin, size, z) ==
    origin + borderWidth(z) + part * (contentWidth(size, z) \div 8)

\* a handler calls getPositionInPoints(e): what it read and what it got
\* (one call is followed in each behaviour)
GetPosition ==
    \E at \in RectOrigins, box \in BoxModels, px \in PointerParts, py \in PointerParts :
        LET rect == Layout(at.left, at.top, box, zoom, currentDims)
            e == [clientX |-> PointerAt(px, rect.left, rect.width, zoom),
                  clientY |-> PointerAt(py, rect.top, rect.height, zoom)]
        IN /\ xf = NoXf
           /\ xf' = [call |-> "getPositionInPoints", e |-> e, rect |-> rect,
                     zoom |-> zoom, dims |-> currentDims, mounted |-> Mounted,
                     out |-> PositionInPoints(e, rect, zoom, currentDims, Mounted)]
           /\ UNCHANGED <<fileVars, storeVars, histVars, gestureVars, clipboard, nextId,
                          saveVars, last>>
           /\ UNCHANGED <<zoom, restoreVars>>
           /\ saveSession

\* the geometries of the page shown: a landscape page, a rotated one, and
\* one as narrow as the two borders of its element
ShownPages ==
    {PageInfo(244 * PT, 160 * PT, 0, 0, 0), PageInfo(100 * PT, 180 * PT, 5 * PT, 7 * PT, 90),
     PageInfo(8 * PT, 160 * PT, 0, 0, 0)}

InitPosition ==
    /\ \E info \in ShownPages : Restored(<<>>, <<info>>)
    /\ xf = NoXf

\* calls of getPositionInPoints at every zoom, with the page shown or a tool
\* panel in its place
NextPosition ==
    \/ GetPosition
    \/ xf = NoXf /\ ZoomIn
    \/ xf = NoXf /\ ZoomOut
    \/ xf = NoXf /\ ResetZoom
    \/ xf = NoXf /\ SetEditorMode("rotate")

SpecPosition == InitPosition /\ [][NextPosition]_vars

\* getPositionInPoints has been called with the page mounted
Called == xf # NoXf /\ xf.mounted

\* the pointer of the call is inside the content box, its edges included
Inside ==
    /\ contentWidth(xf.rect.width, xf.zoom) > 0
    /\ contentWidth(xf.rect.height, xf.zoom) > 0
    /\ contentX(xf.e.clientX, xf.rect.left, xf.zoom) \in 0..contentWidth(xf.rect.width, xf.zoom)
    /\ contentX(xf.e.clientY, xf.rect.top, xf.zoom) \in 0..contentWidth(xf.rect.height, xf.zoom)

\* v is a number between 0 and the extent
Within(v, extent) == v.t = "num" /\ 0 <= v.n /\ v.n <= extent * v.d

\* two numbers are equal
Same(u, v) == u.t = "num" /\ v.t = "num" /\ u = v

\* C27: for every pointer position, inside or outside the page element, every
\* rectangle of the page element and every zoom level, getPositionInPoints
\* returns a point with 0 <= x <= effectiveWidth and
\* 0 <= y <= effectiveHeight of the current page.
C27_PositionClamped ==
    xf # NoXf => /\ Within(xf.out.x, currentPageInfo.effectiveWidth)
                 /\ Within(xf.out.y, currentPageInfo.effectiveHeight)

\* C28: for every pointer position inside the content box, every zoom level
\* and every page geometry, getPositionInPoints followed by toPercentX and
\* toPercentY gives the pointer's relative position in the content box,
\* contentX / contentWidth * 100 and contentY / contentHeight * 100.
C28_RoundTrip ==
    Called /\ Inside =>
        /\ Same(toPercentX(xf.out.x, currentDims),
                Times(Divide(contentX(xf.e.clientX, xf.rect.left, xf.zoom),
                             contentWidth(xf.rect.width, xf.zoom)), 100))
        /\ Same(toPercentY(xf.out.y, currentDims),
                Times(Divide(contentX(xf.e.clientY, xf.rect.top, xf.zoom),
                             contentWidth(xf.rect.height, xf.zoom)), 100))

\* a call a quarter into a rotated page from the left and half way down, at
\* zoom 25: 25 and 50 per cent
C28_Witness ==
    /\ Called /\ Inside
    /\ xf.zoom = 25
    /\ currentPageInfo.rotation = 90
    /\ xf.rect.left # 0
    /\ Same(toPercentX(xf.out.x, currentDims), Num(25, 1))
    /\ Same(toPercentY(xf.out.y, currentDims), Num(50, 1))

\* C29: when the page element is not mounted getPositionInPoints returns
\* (0, 0); nothing is thrown and no error message is set.
C29_UnmountedGivesOrigin ==
    [][GetPosition /\ ~Mounted =>
        /\ xf'.out = [x |-> Num(0, 1), y |-> Num(0, 1)]
        /\ error' = NoError
        /\ ~fatal']_vars

\* a call made while a tool panel is shown in place of the page
C29_Witness ==
    /\ xf # NoXf
    /\ ~xf.mounted
    /\ editorMode = "rotate"
    /\ xf.e.clientX # 0
    /\ xf.out = [x |-> Num(0, 1), y |-> Num(0, 1)]

----------------------------------------------------------------------------
(* Undo then redo, on the store                                            *)

\* C30: in every state where canUndo holds, an undo directly followed by a
\* redo leaves the annotation store equal to what it was just before the undo,
\* also when the store held drag, resize or text changes made since the last
\* push: the snapshot that the redo restores is the store the undo replaced.
C30_UndoRedoKeepsStore ==
    [][ /\ (Undo /\ canUndo) =>
            /\ canRedo'
            /\ history'[RedoIndex(historyIndex') + 1] = annotations
        /\ (Redo /\ last.op = "undo") =>
            annotations' = history[RedoIndex(historyIndex) + 1] ]_vars

----------------------------------------------------------------------------
(* Recording of actions while the undo flag is set                         *)

\* a create, a delete, a paste or a style change that changes the store
StoreAction ==
    /\ \/ \E e \in EditorPointers : PageClick(e) /\ activeTool = "text"
       \/ RemoveClick
       \/ \E f \in FocusChoices : KeyDelete(f)
       \/ \E f \in FocusChoices : KeyPaste(f)
       \/ \E id \in Ids, size \in EditorFontSizes : UpdateAnnotationFontSize(id, size)
       \/ \E id \in Ids, c \in EditorColors : UpdateAnnotationColor(id, c)
    /\ annotations' # annotations

\* C31: directly after every create, delete, paste or style change the action
\* is recorded, history[historyIndex] equals the annotation store, in every
\* interleaving of those actions with undo, redo and the deferred reset of
\* the undo-in-progress flag.
C31_ActionsRecorded ==
    [][StoreAction => history'[historyIndex' + 1] = annotations']_vars

\* the same for the actions handled while the flag is clear
C31_RecordedWhenFlagClear ==
    [][StoreAction /\ ~isUndoingRef => history'[historyIndex' + 1] = annotations']_vars

----------------------------------------------------------------------------
(* Annotations and the pages of the document                               *)

\* loading a document, turning its pages, creating and copying an annotation,
\* a tool panel replacing the document, and the paste shortcut, which the
\* window handles also while the reload is in flight (a copy is followed when
\* it changes the clipboard; the ids bound the pastes)
NextReload ==
    \/ Brief /\ \E doc \in AllDocs : FileSelected(doc)
    \/ \E l \in loads : LoadPages(l)
    \/ \E l \in loads : LoadDone(l)
    \/ Brief /\ NextPage
    \/ Brief /\ \E e \in EditorPointers : PageClick(e)
    \/ Brief /\ SetEditorMode("rotate")
    \/ Brief /\ \E doc \in AllDocs : FileUpdate(doc)
    \/ \E l \in loads : UpdateDone(l)
    \/ \E l \in loads : UpdateFailed(l)
    \/ \E f \in FocusChoices : KeyCopy(f) /\ clipboard' # clipboard
    \/ \E f \in FocusChoices : KeyPaste(f)

SpecReload == InitEditor /\ [][NextReload]_vars

\* C32: in every reachable state each annotation's page is at least 1 and at
\* most the number of pages of the loaded document, also when a paste or a
\* click interleaves with a load or reload in flight.  (Stated for the states
\* in which no load is in flight: a document is loaded and its pages are known.)
C32_AnnotationPagesExist ==
    file # NoFile /\ ~isLoading /\ loads = {} =>
        \A i \in 1..Len(annotations) :
            1 <= annotations[i].page /\ annotations[i].page <= pages

\* C33: whenever a document is loaded or being loaded, currentPage is at
\* least 0 and at most max(0, page count - 1): the page buttons, the sidebar
\* jump and the reload never move it before the first or past the last page,
\* also when the buttons are used while the page images are not loaded yet.
C33_CurrentPageInRange ==
    (file # NoFile \/ isLoading) =>
        0 <= currentPage /\ currentPage <= Max(0, pages - 1)

\* the page buttons and the reload, once the page images have arrived
C33_InRangeOncePagesArrived ==
    [][ (pages > 0 /\ 0 <= currentPage /\ currentPage <= pages - 1
         /\ (PreviousPage \/ NextPage \/ (\E l \in loads : UpdateDone(l)))) =>
        (0 <= currentPage' /\ currentPage' <= Max(0, pages' - 1)) ]_vars

----------------------------------------------------------------------------
(* The selection                                                           *)

\* C34: in every reachable state selectedId is null or the id of an annotation
\* present in the store: delete, undo, redo, reload, reset and the load of a
\* new file never leave a selection that refers to a missing annotation.
C34_SelectionInStore ==
    selectedId = NoId \/ Has(annotations, selectedId)

\* an undo has taken the selected annotation out of the store and cleared the
\* selection with it
C34_Witness ==
    /\ last.op = "undo"
    /\ Len(last.before) = 1
    /\ annotations = <<>>
    /\ selectedId = NoId
    /\ isUndoingRef

----------------------------------------------------------------------------
(* Guides and the box they belong to                                       *)

\* the guide lies on the left edge, the centre or the right edge of the box
\* (vertical), or on its top edge, centre or bottom edge (horizontal)
OnBox(guide, box) ==
    IF guide.type = "vertical"
    THEN guide.position \in {box.x, box.x + box.width \div 2, box.x + box.width}
    ELSE guide.position \in {box.y, box.y + box.height \div 2, box.y + box.height}

\* C35: after every drag pointer-move each active guide coincides with the
\* moved box as just written to the store: a vertical guide is at the box's
\* x, x + width / 2 or x + width, a horizontal guide at its y, y + height / 2
\* or y + height.
C35_GuidesOnBox ==
    [][ DragMove => \A i \in 1..Len(snapGuides') : OnBox(snapGuides'[i], SelectedNext) ]_vars

\* the same for the moves in which at most one offset of each axis has a snap
\* point within the threshold
C35_SingleGuidesOnBox ==
    [][ (DragMove
         /\ Cardinality({i \in 1..Len(snapGuides') : snapGuides'[i].type = "vertical"}) <= 1
         /\ Cardinality({i \in 1..Len(snapGuides') : snapGuides'[i].type = "horizontal"}) <= 1)
        => \A i \in 1..Len(snapGuides') : OnBox(snapGuides'[i], SelectedNext) ]_vars

----------------------------------------------------------------------------
(* The fixed edges of a resize                                             *)

\* C36: during a resize the edges opposite to the dragged corner stay fixed
\* for every pointer position: from sw or nw the right edge x + width keeps
\* its pre-resize value, from ne or nw the bottom edge y + height keeps its
\* pre-resize value, and from se the top-left corner (x, y) keeps its
\* pre-resize value.
C36_OppositeEdgesFixed ==
    [][ ResizeMove =>
          /\ resizeCorner \in {"sw", "nw"} =>
                SelectedNext.x + SelectedNext.width = resizeStart.annX + resizeStart.width
          /\ resizeCorner \in {"ne", "nw"} =>
                SelectedNext.y + SelectedNext.height = resizeStart.annY + resizeStart.height
          /\ resizeCorner = "se" =>
                SelectedNext.x = resizeStart.annX /\ SelectedNext.y = resizeStart.annY ]_vars

\* the same for the pointer positions that leave the box above its minimum size
C36_FixedAboveMinimum ==
    [][ ResizeMove =>
          /\ (resizeCorner \in {"sw", "nw"} /\ resizeStart.width - last'.dx >= minWidth) =>
                SelectedNext.x + SelectedNext.width = resizeStart.annX + resizeStart.width
          /\ (resizeCorner \in {"ne", "nw"} /\ resizeStart.height - last'.dy >= minHeight) =>
                SelectedNext.y + SelectedNext.height = resizeStart.annY + resizeStart.height
          /\ resizeCorner = "se" =>
                SelectedNext.x = resizeStart.annX /\ SelectedNext.y = resizeStart.annY ]_vars

----------------------------------------------------------------------------
(* The restoring-session flag                                              *)

\* the promise of a restore settles: Promise.all resolves or rejects
RestoreSettles == \E l \in loads : RestoreDone(l) \/ RestoreFailed(l)

\* the mounted editor with a rasterization that always settles
SpecRestoreLive == InitRestore /\ [][NextRestore]_vars /\ WF_vars(RestoreSettles)

\* C37: after every restore attempt (success, rasterization failure, or a
\* session that parses but cannot be decoded) the restoring-session flag is
\* eventually cleared, so that a document loaded afterwards is persisted to
\* the session store again.
C37_FlagCleared ==
    /\ isRestoringSession ~> ~isRestoringSession
    /\ [][ (\E l \in loads : LoadDone(l)) => session' = Snapshot' ]_vars

\* the same for the attempts that started a rasterization
C37_ClearedAfterRasterization ==
    (isRestoringSession /\ \E l \in loads : l.kind = "restore") ~> ~isRestoringSession

----------------------------------------------------------------------------
(* Editing while a save is running                                         *)

\* the stores the editor holds when the save is requested
EditedStores ==
    { <<Noted(1, "Hi", 1)>>,
      <<Noted(1, "Hi", 1), Noted(2, " a ", 1)>>,
      <<Noted(1, "Hi", 1), Noted(2, " a ", 2)>> }

InitSaveEdit ==
    /\ \E store \in EditedStores :
          RestoredAt(store, DocPages("A"), [NoEvent EXCEPT !.n = 0])
    /\ xf = NoXf

\* a save is running: its calls are in flight or its result is being read
InFlight == save.pc # "idle"

\* a save and the events the editor handles while it is running: create,
\* select, edit, move, delete, copy, paste, undo and redo, in sessions of at
\* most MaxEvents events
NextSaveEdit ==
    \/ SaveClick
    \/ MutatorReturn
    \/ MutatorThrow
    \/ SaveDownload
    \/ InFlight /\ Brief /\ \E e \in EditorPointers : PageClick(e)
    \/ InFlight /\ Brief /\ \E id \in Ids : AnnotationDoubleClick(id)
    \/ InFlight /\ Brief /\ \E id \in Ids : SidebarSelect(id)
    \/ InFlight /\ Brief /\ \E id \in Ids, text \in EditorTexts : UpdateAnnotationText(id, text)
    \/ InFlight /\ Brief /\ \E e \in EditorPointers, id \in Ids : AnnotationMouseDown(e, id)
    \/ InFlight /\ Brief /\ \E e \in EditorPointers : MouseMove(e)
    \/ Brief /\ \E e \in EditorPointers, target \in Targets : MouseUp(e, target)
    \/ InFlight /\ Brief /\ \E f \in FocusChoices : KeyDelete(f)
    \/ InFlight /\ Brief /\ \E f \in FocusChoices : KeyCopy(f) /\ clipboard' # clipboard
    \/ InFlight /\ Brief /\ \E f \in FocusChoices : KeyPaste(f)
    \/ InFlight /\ Brief /\ Undo
    \/ InFlight /\ Brief /\ Redo
    \/ TimerFire

SpecSaveEdit == InitSaveEdit /\ [][NextSaveEdit]_vars

\* the calls a save of this store makes, one per annotation with text, in
\* store order
CallsFor(store, infos) ==
    [k \in 1..Len(nonEmptyAnnotations(store)) |->
        [text |-> nonEmptyAnnotations(store)[k].text,
         options |-> Options(nonEmptyAnnotations(store)[k], infos)]]

\* C38: a save writes the annotations as they were when it was requested:
\* creating, editing, moving, deleting, pasting or undoing annotations while
\* mutator calls are in flight changes neither the number, the order nor the
\* arguments of its calls, and the save itself never changes the annotation
\* store, the selection or the history.
C38_SaveUsesRequestedStore ==
    /\ [](save.pc # "idle" =>
            LET planned == CallsFor(save.annotations, save.infos)
                made == CallsOf(save.n)
            IN /\ Len(made) = (IF save.pc = "mutating" THEN save.k ELSE Len(planned))
               /\ Len(made) <= Len(planned)
               /\ \A k \in 1..Len(made) :
                     /\ made[k].text = planned[k].text
                     /\ made[k].options = planned[k].options)
    /\ [][ (save.pc # "idle" /\ ~SaveStep) =>
               /\ calls' = calls
               /\ save' = save ]_vars
    /\ [][ SaveStep => UNCHANGED <<annotations, selectedId, history, historyIndex>> ]_vars

\* the second call of a save was made for the second annotation as it was when
\* the save was requested, although that annotation has been deleted since
C38_Witness ==
    /\ save.pc # "idle"
    /\ Len(CallsOf(save.n)) = 2
    /\ Len(save.annotations) = 2
    /\ Len(annotations) = 1
    /\ CallsOf(save.n)[2].text = save.annotations[2].text
    /\ \A i \in 1..Len(annotations) : annotations[i].id # save.annotations[2].id

====
